---------------------------- MODULE Spec2Model ----------------------------
(***************************************************************************)
(* A model of three parts of the eir compiler:                             *)
(*   - the CPS transform of LIR modules (cps_transform/src/lib.rs),        *)
(*   - the loose SSA pass over HIR trees (compiler/.../hir/pass/ssa.rs),   *)
(*   - the lexer of listings (libeir_util_parse_listing/src/token.rs).     *)
(* Each is a state machine of its own (SpecCPS, SpecSSA, SpecLex); the     *)
(* variables of the parts that are not running stay as Init left them.     *)
(***************************************************************************)
EXTENDS Integers, Sequences, FiniteSets, TLC

VARIABLES
    \* ---- CPS transform: transform_module ----
    pc,              \* where the transform stands
    panic,           \* <<>> or <<message>> of the panic that aborted it
    module,          \* the input Module
    fun_idents,      \* idents still to transform, sorted
    funs,            \* result_functions: FunctionIdent -> Function
    env_gen,         \* ModuleEnvs: one record per closure env
    result,          \* <<>> or <<the Module transform_module returned>>
    \* ---- transform_function ----
    src_fun,         \* the source Function
    live,            \* its LiveValues
    cont_sites,      \* the Call / Apply ops
    needed,          \* Vec<(ContSite, ClosureEnv)>
    needed_map,      \* HashMap<ContSite, ClosureEnv> (continuaitons)
    generated,       \* HashSet<(EbbCall, Option<Value>)>
    generated2,      \* HashSet<Op>
    \* ---- gen_chunk ----
    site,            \* the ContSite the chunk starts at
    cont,            \* <<>> for an entry chunk, <<env_idx>> for a continuation
    b,               \* the FunctionBuilder with the Function it builds
    to_process,      \* VecDeque<Op>
    val_map,         \* source Value -> destination Value
    ebb_map,         \* source Op -> destination Ebb
    handled_ops,     \* HashSet<Op>
    ok_ret_cont,     \* destination value of the ok return continuation
    err_ret_cont,    \* destination value of the err return continuation
    env_vals,        \* source values the chunk unpacked from its env
    \* ---- SSA pass ----
    hir,             \* the HIR tree, a table of nodes
    ssa,             \* node -> assigned SSA name (0: none yet)
    var_ssa,         \* binding occurrence (node, position) -> SSA name
    stack,           \* the recursion of assign_ssa_single_expression
    scopes,          \* ScopeTracker: the stack of scopes
    next_ssa,        \* SSAVariableGenerator: names handed out so far
    ssa_pc,          \* where the pass stands
    tracking,        \* ScopeTracker: the stack of tracking frames
    lambda_envs,     \* ScopeTracker: the table of LambdaEnv records
    lambda_env,      \* node -> <<>> or <<index of its LambdaEnv>>
    env_ssa,         \* node -> SSA name of its env (0: none yet)
    is_lambda,       \* NamedFunction node -> is_lambda
    \* ---- Lexer ----
    scanner,         \* Scanner: the source and the position in it
    token,           \* the token read ahead
    token_start,     \* SourceIndex
    token_end,       \* SourceIndex
    eof,             \* the end of the source was seen
    str_buf,         \* the text of the quoted atom or string being read
    stream,          \* the items the iterator has yielded
    lex_pc           \* where the lexer stands

cpsVars == <<pc, panic, module, fun_idents, funs, env_gen, result, src_fun, live,
             cont_sites, needed, needed_map, generated, generated2, site,
             cont, b, to_process, val_map, ebb_map, handled_ops,
             ok_ret_cont, err_ret_cont, env_vals>>
tfVars == <<src_fun, live, cont_sites, generated, generated2>>
chunkVars == <<site, cont, b, to_process, val_map, ebb_map, handled_ops,
               ok_ret_cont, err_ret_cont, env_vals>>
ssaVars == <<hir, ssa, var_ssa, stack, scopes, next_ssa, ssa_pc, tracking,
             lambda_envs, lambda_env, env_ssa, is_lambda>>
lexVars == <<scanner, token, token_start, token_end, eof, str_buf, stream, lex_pc>>
vars == <<cpsVars, ssaVars, lexVars>>

(***************************************************************************)
(* Generic helpers.                                                        *)
(***************************************************************************)
Range(s) == {s[i] : i \in DOMAIN s}
None == <<>>
Some(x) == <<x>>
Last(s) == s[Len(s)]
Front(s) == SubSeq(s, 1, Len(s) - 1)
HasKey(m, k) == k \in DOMAIN m
Insert(m, k, v) == [x \in DOMAIN m \cup {k} |-> IF x = k THEN v ELSE m[x]]
Empty == [x \in {} |-> 0]
SetMin(S) == CHOOSE x \in S : \A y \in S : x <= y
RECURSIVE SortedSeq(_)
SortedSeq(S) ==
    IF S = {} THEN <<>> ELSE <<SetMin(S)>> \o SortedSeq(S \ {SetMin(S)})
SeqIndex(s, x) == CHOOSE i \in DOMAIN s : s[i] = x
SeqFilter(s, S) == SelectSeq(s, LAMBDA x : x \in S)

(***************************************************************************)
(* The LIR Function: EBBs, ops, values, EBB calls, all dense handles.      *)
(***************************************************************************)
Ident(name, arity, lambda) == [name |-> name, arity |-> arity, lambda |-> lambda]
Op(kind, call_type, reads, writes, branches) ==
    [kind |-> kind, call_type |-> call_type, reads |-> reads,
     writes |-> writes, branches |-> branches, env |-> None, ident |-> None]
Ebb(args, ops) == [args |-> args, ops |-> ops]
EbbCall(source, target, args) == [source |-> source, target |-> target, args |-> args]

op_kind(f, op) == f.ops[op].kind
op_call_type(f, op) == f.ops[op].call_type
op_reads(f, op) == f.ops[op].reads
op_writes(f, op) == f.ops[op].writes
op_branches(f, op) == f.ops[op].branches
op_ebb(f, op) == CHOOSE e \in DOMAIN f.ebbs : op \in Range(f.ebbs[e].ops)
op_after(f, op) ==
    LET ops == f.ebbs[op_ebb(f, op)].ops
        i == SeqIndex(ops, op)
    IN  IF i < Len(ops) THEN Some(ops[i + 1]) ELSE None
op_before(f, op) ==
    LET ops == f.ebbs[op_ebb(f, op)].ops
        i == SeqIndex(ops, op)
    IN  IF i > 1 THEN Some(ops[i - 1]) ELSE None
ebb_first_op(f, ebb) == f.ebbs[ebb].ops[1]
ebb_args(f, ebb) == f.ebbs[ebb].args
ebb_call_source(f, call) == f.ebb_calls[call].source
ebb_call_target(f, call) == f.ebb_calls[call].target
ebb_call_args(f, call) == f.ebb_calls[call].args
value_is_constant(f, v) == v \in f.constants
FunIdent(f) == f.ident

(***************************************************************************)
(* Live values: flow_live[op] is live on the fall-through edge after op,   *)
(* ebb_live[ebb] at the entry of ebb.  Sets iterate in handle order.       *)
(***************************************************************************)
NonConst(f, s) == {v \in Range(s) : ~value_is_constant(f, v)}
BranchLive(f, L, c) ==
    NonConst(f, ebb_call_args(f, c)) \cup
    (L[ebb_first_op(f, ebb_call_target(f, c))] \ Range(ebb_args(f, ebb_call_target(f, c))))
LiveOut(f, L, op) ==
    (IF op_after(f, op) = None THEN {} ELSE L[op_after(f, op)[1]]) \cup
    UNION {BranchLive(f, L, c) : c \in Range(op_branches(f, op))}
LiveStep(f, L) ==
    [op \in DOMAIN f.ops |->
        NonConst(f, op_reads(f, op)) \cup (LiveOut(f, L, op) \ Range(op_writes(f, op)))]
RECURSIVE LiveFix(_, _)
LiveFix(f, L) == IF LiveStep(f, L) = L THEN L ELSE LiveFix(f, LiveStep(f, L))
LiveValues(f) ==
    LET L == LiveFix(f, [op \in DOMAIN f.ops |-> {}])
    IN  [flow_live |-> [op \in DOMAIN f.ops |->
                           IF op_after(f, op) = None THEN <<>>
                           ELSE SortedSeq(L[op_after(f, op)[1]])],
         ebb_live |-> [e \in DOMAIN f.ebbs |-> SortedSeq(L[ebb_first_op(f, e)])]]


(***************************************************************************)
(* The input modules.  Values, ops, EBBs and EBB calls are numbered as the *)
(* dense handles of the arenas; the constants of a function are the values *)
(* of ConstantValues.                                                      *)
(***************************************************************************)
MaxArgs == 2        \* entry arguments of a generated source function
MaxCalls == 2       \* sequential call sites of a generated source function

ConstantValues == <<91, 92, 93>>
kName == ConstantValues[1]      \* constant: the callee's name atom
kModule == ConstantValues[2]    \* constant: the callee's module atom
kLit == ConstantValues[3]       \* constant: a literal operand
Constants == Range(ConstantValues)
ArgSeq(n) == [i \in 1..n |-> i]

\* f(a1..an) { ok, nok = call/apply g(a1..an) [throw: T(nok)]; return_ok ret }
\* T(p) { return_throw p }
CallFun(name, n, kind, ret) ==
    [ident |-> Ident(name, n, None),
     ebbs |-> <<Ebb(ArgSeq(n), <<1, 2>>), Ebb(<<13>>, <<3>>)>>,
     ops |-> <<Op(kind, "Normal",
                  IF kind = "Call" THEN <<kName, kModule>> \o ArgSeq(n) ELSE ArgSeq(n),
                  <<11, 12>>, <<1>>),
               Op("ReturnOk", "", <<ret>>, <<>>, <<>>),
               Op("ReturnThrow", "", <<13>>, <<>>, <<>>)>>,
     ebb_calls |-> <<EbbCall(1, 2, <<12>>)>>,
     constants |-> Constants,
     ebb_entry |-> 1]

\* f(a1..an) { tail call/apply g(a1..an, lit) }
TailFun(name, n, kind) ==
    [ident |-> Ident(name, n, None),
     ebbs |-> <<Ebb(ArgSeq(n), <<1>>)>>,
     ops |-> <<Op(kind, "Tail",
                  IF kind = "Call" THEN <<kName, kModule>> \o ArgSeq(n) \o <<kLit>>
                  ELSE ArgSeq(n) \o <<kLit>>,
                  <<>>, <<>>)>>,
     ebb_calls |-> <<>>,
     constants |-> Constants,
     ebb_entry |-> 1]

\* f(a) { x1 = call g(a); m1 = move x1; ...; xk = call g(m(k-1)); mk = move xk;
\*        return_ok mk   or   tail call h(a, mk) }       T(p) { return_throw p }
\* Every call throws to the one EBB T through an EBB call of its own.
SeqOps(k, tail) ==
    [o \in 1..(2 * k + 2) |->
        IF o = 2 * k + 2 THEN Op("ReturnThrow", "", <<5>>, <<>>, <<>>)
        ELSE IF o = 2 * k + 1 THEN
            IF tail THEN Op("Call", "Tail", <<kName, kModule, 1, 10 * k + 3>>, <<>>, <<>>)
            ELSE Op("ReturnOk", "", <<10 * k + 3>>, <<>>, <<>>)
        ELSE IF o % 2 = 1 THEN
            LET i == (o + 1) \div 2
            IN  Op("Call", "Normal",
                   <<kName, kModule, IF i = 1 THEN 1 ELSE 10 * (i - 1) + 3>>,
                   <<10 * i + 1, 10 * i + 2>>, <<i>>)
        ELSE LET i == o \div 2
             IN  Op("Move", "", <<10 * i + 1>>, <<10 * i + 3>>, <<>>)]
SeqFun(name, k, tail) ==
    [ident |-> Ident(name, 1, None),
     ebbs |-> <<Ebb(<<1>>, [o \in 1..(2 * k + 1) |-> o]), Ebb(<<5>>, <<2 * k + 2>>)>>,
     ops |-> SeqOps(k, tail),
     ebb_calls |-> [i \in 1..k |-> EbbCall(2 * i - 1, 2, <<10 * i + 2>>)],
     constants |-> Constants,
     ebb_entry |-> 1]

\* f(a) { x, e = call g(a) [throw: H(e)]; jump J(x) }
\* H(p) { jump J(p) }       J(q) { y, e2 = call h(q) [throw: T(e2)]; return_ok y }
\* T(r) { return_throw r }
\* Both continuations of the first call run into the second call.
JoinFun(name) ==
    [ident |-> Ident(name, 1, None),
     ebbs |-> <<Ebb(<<1>>, <<1, 2>>), Ebb(<<4>>, <<3>>),
                Ebb(<<5>>, <<4, 5>>), Ebb(<<8>>, <<6>>)>>,
     ops |-> <<Op("Call", "Normal", <<kName, kModule, 1>>, <<2, 3>>, <<1>>),
               Op("Jump", "", <<>>, <<>>, <<2>>),
               Op("Jump", "", <<>>, <<>>, <<3>>),
               Op("Call", "Normal", <<kName, kModule, 5>>, <<6, 7>>, <<4>>),
               Op("ReturnOk", "", <<6>>, <<>>, <<>>),
               Op("ReturnThrow", "", <<8>>, <<>>, <<>>)>>,
     ebb_calls |-> <<EbbCall(1, 2, <<3>>), EbbCall(2, 3, <<2>>),
                     EbbCall(3, 3, <<4>>), EbbCall(4, 4, <<7>>)>>,
     constants |-> Constants,
     ebb_entry |-> 1]

\* f(a) { jump L(a) }
\* L(x) { y, e = call g(x) [throw: T(e)]; if_truthy y [D(y)]; jump L(y) }
\* T(p) { return_throw p }       D(r) { return_ok r }
LoopFun(name) ==
    [ident |-> Ident(name, 1, None),
     ebbs |-> <<Ebb(<<1>>, <<1>>), Ebb(<<2>>, <<2, 3, 4>>),
                Ebb(<<5>>, <<5>>), Ebb(<<6>>, <<6>>)>>,
     ops |-> <<Op("Jump", "", <<>>, <<>>, <<1>>),
               Op("Call", "Normal", <<kName, kModule, 2>>, <<3, 4>>, <<2>>),
               Op("IfTruthy", "", <<3>>, <<>>, <<3>>),
               Op("Jump", "", <<>>, <<>>, <<4>>),
               Op("ReturnThrow", "", <<5>>, <<>>, <<>>),
               Op("ReturnOk", "", <<6>>, <<>>, <<>>)>>,
     ebb_calls |-> <<EbbCall(1, 2, <<1>>), EbbCall(2, 3, <<4>>),
                     EbbCall(3, 4, <<3>>), EbbCall(4, 2, <<3>>)>>,
     constants |-> Constants,
     ebb_entry |-> 1]

\* f(a) { x = move a; if_truthy x [D(x)]; jump f-entry(x) }     D(r) { return_ok r }
\* The last jump is a back edge to the entry EBB.
BackFun(name) ==
    [ident |-> Ident(name, 1, None),
     ebbs |-> <<Ebb(<<1>>, <<1, 2, 3>>), Ebb(<<3>>, <<4>>)>>,
     ops |-> <<Op("Move", "", <<1>>, <<2>>, <<>>),
               Op("IfTruthy", "", <<2>>, <<>>, <<1>>),
               Op("Jump", "", <<>>, <<>>, <<2>>),
               Op("ReturnOk", "", <<3>>, <<>>, <<>>)>>,
     ebb_calls |-> <<EbbCall(2, 2, <<2>>), EbbCall(3, 1, <<2>>)>>,
     constants |-> Constants,
     ebb_entry |-> 1]

\* f(a) { x, e = call g(a) [throw: T(args)]; return_ok x }
\* T(p1..pm) { t = make_tuple(p1..pm); return_throw t }
\* args is any list over the call's error value e (3) and the argument a (1).
ErrArgLists == {<<>>, <<3>>, <<1>>, <<1, 3>>, <<3, 1>>, <<3, 3>>, <<1, 1>>}
ErrFun(name, args) ==
    [ident |-> Ident(name, 1, None),
     ebbs |-> <<Ebb(<<1>>, <<1, 2>>),
                Ebb([i \in 1..Len(args) |-> 3 + i], <<3, 4>>)>>,
     ops |-> <<Op("Call", "Normal", <<kName, kModule, 1>>, <<2, 3>>, <<1>>),
               Op("ReturnOk", "", <<2>>, <<>>, <<>>),
               Op("MakeTuple", "", [i \in 1..Len(args) |-> 3 + i], <<9>>, <<>>),
               Op("ReturnThrow", "", <<9>>, <<>>, <<>>)>>,
     ebb_calls |-> <<EbbCall(1, 2, args)>>,
     constants |-> Constants,
     ebb_entry |-> 1]

\* f(a) { x, e = call g(a) [throw: T()]; return_ok x }       T() { return_throw e }
\* The throw target reads the call's error value without taking it as an argument.
ErrDirectFun(name) ==
    [ident |-> Ident(name, 1, None),
     ebbs |-> <<Ebb(<<1>>, <<1, 2>>), Ebb(<<>>, <<3>>)>>,
     ops |-> <<Op("Call", "Normal", <<kName, kModule, 1>>, <<2, 3>>, <<1>>),
               Op("ReturnOk", "", <<2>>, <<>>, <<>>),
               Op("ReturnThrow", "", <<3>>, <<>>, <<>>)>>,
     ebb_calls |-> <<EbbCall(1, 2, <<>>)>>,
     constants |-> Constants,
     ebb_entry |-> 1]

\* f(a) { if_truthy a [B1(a)]; if_truthy a [B2(a)]; x, e = call g(a) [throw: T(e)];
\*        return_ok x }
\* B1(p) { y, e1 = call g(p) [throw: T(e1)]; return_ok y }
\* B2(q) { z, e2 = call g(q) [throw: T(e2)]; return_ok z }       T(r) { return_throw r }
\* Three call sites in one chunk, behind two forks.
ForkFun(name) ==
    [ident |-> Ident(name, 1, None),
     ebbs |-> <<Ebb(<<1>>, <<1, 2, 3, 4>>), Ebb(<<5>>, <<5, 6>>),
                Ebb(<<6>>, <<7, 8>>), Ebb(<<40>>, <<9>>)>>,
     ops |-> <<Op("IfTruthy", "", <<1>>, <<>>, <<1>>),
               Op("IfTruthy", "", <<1>>, <<>>, <<2>>),
               Op("Call", "Normal", <<kName, kModule, 1>>, <<11, 12>>, <<3>>),
               Op("ReturnOk", "", <<11>>, <<>>, <<>>),
               Op("Call", "Normal", <<kName, kModule, 5>>, <<21, 22>>, <<4>>),
               Op("ReturnOk", "", <<21>>, <<>>, <<>>),
               Op("Call", "Normal", <<kName, kModule, 6>>, <<31, 32>>, <<5>>),
               Op("ReturnOk", "", <<31>>, <<>>, <<>>),
               Op("ReturnThrow", "", <<40>>, <<>>, <<>>)>>,
     ebb_calls |-> <<EbbCall(1, 2, <<1>>), EbbCall(2, 3, <<1>>), EbbCall(3, 4, <<12>>),
                     EbbCall(5, 4, <<22>>), EbbCall(7, 4, <<32>>)>>,
     constants |-> Constants,
     ebb_entry |-> 1]

\* A closure: its ident carries a lambda env and its first argument is the env.
\* f(env, a) { u = unpack_env env; x, e = call g(a, u) [throw: T(e)]; return_ok x }
ClosureFun(name) ==
    [ident |-> Ident(name, 2, Some(<<1, 0>>)),
     ebbs |-> <<Ebb(<<1, 2>>, <<1, 2, 3>>), Ebb(<<6>>, <<4>>)>>,
     ops |-> <<Op("UnpackEnv", "", <<1>>, <<3>>, <<>>),
               Op("Call", "Normal", <<kName, kModule, 2, 3>>, <<4, 5>>, <<1>>),
               Op("ReturnOk", "", <<4>>, <<>>, <<>>),
               Op("ReturnThrow", "", <<6>>, <<>>, <<>>)>>,
     ebb_calls |-> <<EbbCall(2, 2, <<5>>)>>,
     constants |-> Constants,
     ebb_entry |-> 1]
IsClosure(f) == f.ident.lambda # None

SourceFuns(name) ==
    {CallFun(name, n, "Call", ret) : n \in 0..MaxArgs, ret \in {11, kLit}}
    \cup {CallFun(name, n, "Apply", 11) : n \in 1..MaxArgs}
    \cup {TailFun(name, n, kind) : n \in 1..MaxArgs, kind \in {"Call", "Apply"}}
    \cup {SeqFun(name, k, tail) : k \in 1..MaxCalls, tail \in BOOLEAN}
    \cup {JoinFun(name), LoopFun(name), BackFun(name), ClosureFun(name),
          ErrDirectFun(name), ForkFun(name)}
    \cup {ErrFun(name, args) : args \in ErrArgLists}

\* A module: a name, its functions by ident, its closure env table.
Module(name, functions, envs) == [name |-> name, functions |-> functions, envs |-> envs]
ClosureEnvRecord(n) == [captures_num |-> n]
Modules ==
    {Module("m", {f}, IF IsClosure(f) THEN <<ClosureEnvRecord(None)>> ELSE <<>>)
        : f \in SourceFuns(1)}
    \cup {Module("m2", {SeqFun(2, 1, TRUE), TailFun(1, 1, "Call")}, <<>>),
          Module("m2", {CallFun(1, 1, "Call", 11), ClosureFun(2)},
                 <<ClosureEnvRecord(None)>>)}

(***************************************************************************)
(* FunctionBuilder: the destination Function under construction.  Values   *)
(* are handed out densely; a constant is a value with a payload.           *)
(***************************************************************************)
NewFunction(ident) ==
    [ident |-> ident, dialect |-> "CPS", attributes |-> {}, ebbs |-> <<>>,
     nvals |-> 0, constants |-> Empty]
NewBuilder(fun) == [fun |-> fun, current_ebb |-> 0]
put_attribute(bb, key) == [bb EXCEPT !.fun.attributes = @ \cup {key}]
insert_ebb(bb) == [bb EXCEPT !.fun.ebbs = Append(@, Ebb(<<>>, <<>>))]
last_ebb(bb) == Len(bb.fun.ebbs)
position_at_end(bb, ebb) == [bb EXCEPT !.current_ebb = ebb]
last_value(bb) == bb.fun.nvals
add_ebb_argument(bb, ebb) ==
    [bb EXCEPT !.fun.nvals = @ + 1,
               !.fun.ebbs[ebb].args = Append(@, bb.fun.nvals + 1)]
create_constant(bb, payload) ==
    [bb EXCEPT !.fun.nvals = @ + 1,
               !.fun.constants = Insert(@, bb.fun.nvals + 1, payload)]
\* n fresh write values of an op being built
new_writes(bb, n) == [i \in 1..n |-> bb.fun.nvals + i]
op_build(bb, op) ==
    [bb EXCEPT !.fun.nvals = @ + Len(op.writes),
               !.fun.ebbs[bb.current_ebb].ops = Append(@, op)]
op_unpack_env(bb, env_val, n) ==
    op_build(bb, [Op("UnpackEnv", "", <<env_val>>, new_writes(bb, n), <<>>)
                     EXCEPT !.ident = None])
op_make_closure_env(bb, env_idx, buf) ==
    op_build(bb, [Op("MakeClosureEnv", "", buf, new_writes(bb, 1), <<>>)
                     EXCEPT !.env = Some(env_idx)])
op_bind_closure(bb, ident, env) ==
    op_build(bb, [Op("BindClosure", "", <<env>>, new_writes(bb, 1), <<>>)
                     EXCEPT !.ident = Some(ident)])
op_tail_apply(bb, fun, buf) ==
    op_build(bb, Op("Apply", "Tail", <<fun>> \o buf, <<>>, <<>>))
op_tail_call(bb, name, mod, buf) ==
    op_build(bb, Op("Call", "Tail", <<name, mod>> \o buf, <<>>, <<>>))
op_cont_apply(bb, k, args) ==
    op_build(bb, Op("ContApply", "", <<k>> \o args, <<>>, <<>>))

(***************************************************************************)
(* copy_read and copy_op.  A lookup val_map[v] of a value that is not in   *)
(* the map panics: the result then has ok = FALSE.                         *)
(***************************************************************************)
copy_read(sf, bb, vm, src_val) ==
    IF value_is_constant(sf, src_val)
    THEN [b |-> create_constant(bb, src_val),
          value |-> bb.fun.nvals + 1, ok |-> TRUE]
    ELSE IF HasKey(vm, src_val)
    THEN [b |-> bb, value |-> vm[src_val], ok |-> TRUE]
    ELSE [b |-> bb, value |-> 0, ok |-> FALSE]

\* copy_read of each value of a list, in order
RECURSIVE copy_reads(_, _, _, _)
copy_reads(sf, bb, vm, src_vals) ==
    IF src_vals = <<>> THEN [b |-> bb, values |-> <<>>, ok |-> TRUE]
    ELSE LET r == copy_read(sf, bb, vm, Head(src_vals))
             rest == copy_reads(sf, r.b, vm, Tail(src_vals))
         IN  [b |-> rest.b, values |-> <<r.value>> \o rest.values,
              ok |-> r.ok /\ rest.ok]

\* add one destination argument per source EBB argument, recording the mapping
RECURSIVE add_ebb_arguments(_, _, _, _)
add_ebb_arguments(bb, vm, ebb, src_args) ==
    IF src_args = <<>> THEN [b |-> bb, val_map |-> vm]
    ELSE add_ebb_arguments(add_ebb_argument(bb, ebb),
                           Insert(vm, Head(src_args), bb.fun.nvals + 1),
                           ebb, Tail(src_args))

\* the target of a copied branch: the EBB mapped to the first op of the source
\* target, or a new EBB with one argument per source argument
copy_branch_target(sf, st, branch) ==
    LET old_target == ebb_call_target(sf, branch)
        old_target_op == ebb_first_op(sf, old_target)
    IN  IF HasKey(st.ebb_map, old_target_op)
        THEN [st EXCEPT !.new = st.ebb_map[old_target_op]]
        ELSE LET b1 == insert_ebb(st.b)
                 new == last_ebb(b1)
                 r == add_ebb_arguments(b1, st.val_map, new, ebb_args(sf, old_target))
             IN  [st EXCEPT !.b = r.b, !.val_map = r.val_map, !.new = new,
                            !.ebb_map = Insert(@, old_target_op, new)]

RECURSIVE copy_branches(_, _, _)
copy_branches(sf, st, branches) ==
    IF branches = <<>> THEN st
    ELSE LET t == copy_branch_target(sf, st, Head(branches))
             r == copy_reads(sf, t.b, t.val_map, ebb_call_args(sf, Head(branches)))
             call == [target |-> t.new, args |-> r.values]
         IN  copy_branches(sf,
                 [t EXCEPT !.b = r.b, !.calls = Append(@, call), !.ok = @ /\ r.ok],
                 Tail(branches))

\* the writes of the copied op get new values, recorded in the map
copy_writes(vm, src_writes, new) ==
    [v \in DOMAIN vm \cup Range(src_writes) |->
        IF v \in Range(src_writes)
        THEN new[CHOOSE i \in DOMAIN src_writes :
                    /\ src_writes[i] = v
                    /\ \A j \in DOMAIN src_writes : src_writes[j] = v => j <= i]
        ELSE vm[v]]

copy_op(sf, src_op, bb, vm, em) ==
    LET writes == new_writes(bb, Len(op_writes(sf, src_op)))
        b1 == [bb EXCEPT !.fun.nvals = @ + Len(writes)]
        vm1 == copy_writes(vm, op_writes(sf, src_op), writes)
        rd == copy_reads(sf, b1, vm1, op_reads(sf, src_op))
        br == copy_branches(sf,
                  [b |-> rd.b, val_map |-> vm1, ebb_map |-> em, new |-> 0,
                   calls |-> <<>>, ok |-> rd.ok],
                  op_branches(sf, src_op))
        em1 == IF op_after(sf, src_op) # None
               THEN Insert(br.ebb_map, op_after(sf, src_op)[1], bb.current_ebb)
               ELSE br.ebb_map
        op == [kind |-> op_kind(sf, src_op), call_type |-> op_call_type(sf, src_op),
               reads |-> rd.values, writes |-> writes, branches |-> br.calls,
               env |-> None, ident |-> None]
    IN  [b |-> [br.b EXCEPT !.fun.ebbs[bb.current_ebb].ops = Append(@, op)],
         val_map |-> br.val_map, ebb_map |-> em1, ok |-> br.ok]

(***************************************************************************)
(* gen_chunk: the entry EBB of a chunk.                                    *)
(***************************************************************************)
SiteOp(op) == <<"Op", op, None>>
SiteEbbCall(call, val) == <<"EbbCall", call, val>>
IsSiteOp(st) == st[1] = "Op"

\* the source op a chunk starts at
site_first_op(sf, st) ==
    IF IsSiteOp(st) THEN st[2]
    ELSE ebb_first_op(sf, ebb_call_target(sf, st[2]))

\* the source value the result argument of a continuation stands for
site_result(sf, st) ==
    IF IsSiteOp(st) THEN Some(op_writes(sf, op_before(sf, st[2])[1])[1])
    ELSE st[3]

\* the values live at the site, in live-set order
site_live(sf, lv, st) ==
    IF IsSiteOp(st) THEN lv.flow_live[op_before(sf, st[2])[1]]
    ELSE lv.ebb_live[ebb_call_target(sf, st[2])]

\* the source values a continuation chunk takes from its env
site_env_vals(sf, lv, st) ==
    SelectSeq(site_live(sf, lv, st), LAMBDA v : Some(v) # site_result(sf, st))

\* the unwraps and the assert of the continuation's preamble
site_ok(sf, lv, st) ==
    IF IsSiteOp(st)
    THEN /\ op_before(sf, st[2]) # None
         /\ op_writes(sf, op_before(sf, st[2])[1]) # <<>>
    ELSE /\ Len(op_writes(sf, ebb_call_source(sf, st[2]))) >= 2
         /\ \A v \in Range(site_live(sf, lv, st)) :
                op_writes(sf, ebb_call_source(sf, st[2]))[2] # v

\* faulty variant: a continuation keeps the ident of its source function
chunk_ident_of_source(sf, ct) == FunIdent(sf)

chunk_ident(sf, ct) ==
    IF ct # None THEN [FunIdent(sf) EXCEPT !.lambda = Some(<<ct[1], 0>>)]
    ELSE FunIdent(sf)

\* pair the env values with the unpacked values after the two continuations
zip_env_vals(vm, evs, new_env_vars) ==
    [v \in DOMAIN vm \cup Range(evs) |->
        IF v \in Range(evs) THEN new_env_vars[2 + SeqIndex(evs, v)] ELSE vm[v]]

continuation_entry(sf, lv, st, ct) ==
    LET b0 == position_at_end(
                  insert_ebb(put_attribute(NewBuilder(NewFunction(chunk_ident(sf, ct))),
                                           "Continuation")), 1)
        evs == site_env_vals(sf, lv, st)
        res == site_result(sf, st)
        b1 == add_ebb_argument(b0, 1)
        env_val == last_value(b1)
        b2 == add_ebb_argument(b1, 1)
        res_val == last_value(b2)
        vm0 == IF res # None THEN Insert(Empty, res[1], res_val) ELSE Empty
        new_env_vars == new_writes(b2, Len(evs) + 2)
        b3 == op_unpack_env(b2, env_val, Len(evs) + 2)
    IN  [ok |-> site_ok(sf, lv, st), b |-> b3,
         val_map |-> zip_env_vals(vm0, evs, new_env_vars),
         ebb_map |-> Insert(Empty, site_first_op(sf, st), 1),
         ok_ret_cont |-> new_env_vars[1], err_ret_cont |-> new_env_vars[2],
         env_vals |-> evs, src_first_op |-> site_first_op(sf, st)]

\* faulty variant: the continuations are appended after the original arguments
function_entry_args_first(sf, st) ==
    LET b0 == position_at_end(insert_ebb(NewBuilder(NewFunction(chunk_ident(sf, None)))), 1)
        src_first_ebb == op_ebb(sf, st[2])
        r == add_ebb_arguments(b0, Empty, 1, ebb_args(sf, src_first_ebb))
        b1 == add_ebb_argument(r.b, 1)
        b2 == add_ebb_argument(b1, 1)
    IN  [ok |-> IsSiteOp(st), b |-> b2, val_map |-> r.val_map,
         ebb_map |-> Insert(Empty, st[2], 1),
         ok_ret_cont |-> last_value(b1), err_ret_cont |-> last_value(b2),
         env_vals |-> <<>>, src_first_op |-> st[2]]

function_entry(sf, st) ==
    LET b0 == position_at_end(insert_ebb(NewBuilder(NewFunction(chunk_ident(sf, None)))), 1)
        src_first_ebb == op_ebb(sf, st[2])
        b1 == add_ebb_argument(b0, 1)
        b2 == add_ebb_argument(b1, 1)
        r == add_ebb_arguments(b2, Empty, 1, ebb_args(sf, src_first_ebb))
    IN  [ok |-> IsSiteOp(st), b |-> r.b, val_map |-> r.val_map,
         ebb_map |-> Insert(Empty, st[2], 1),
         ok_ret_cont |-> last_value(b1), err_ret_cont |-> last_value(b2),
         env_vals |-> <<>>, src_first_op |-> st[2]]

chunk_entry(sf, lv, st, ct) ==
    IF ct # None THEN continuation_entry(sf, lv, st, ct) ELSE function_entry(sf, st)

(***************************************************************************)
(* gen_chunk: a continuation site (a Call or an Apply).                    *)
(***************************************************************************)
is_tail(sf, src_op) == op_call_type(sf, src_op) = "Tail"

\* the values the ok continuation captures: live after the call, but its result
ok_captures(sf, lv, src_op) ==
    SelectSeq(lv.flow_live[src_op], LAMBDA v : v # op_writes(sf, src_op)[1])

\* target EBB argument -> the argument the EBB call passes for it
call_renames(sf, src_branch) ==
    LET from == ebb_call_args(sf, src_branch)
        to == ebb_args(sf, ebb_call_target(sf, src_branch))
        n == IF Len(from) < Len(to) THEN Len(from) ELSE Len(to)
    IN  [v \in {to[i] : i \in 1..n} |->
            from[CHOOSE i \in 1..n : to[i] = v /\ \A j \in 1..n : to[j] = v => j <= i]]
renamed(sf, src_branch, v) ==
    IF HasKey(call_renames(sf, src_branch), v)
    THEN call_renames(sf, src_branch)[v] ELSE v

\* the values live at the throw target, as named before the EBB call, without
\* those that are the call's error value
err_live(sf, lv, src_op) ==
    lv.ebb_live[ebb_call_target(sf, op_branches(sf, src_op)[1])]
err_captures(sf, lv, src_op) ==
    LET src_branch == op_branches(sf, src_op)[1]
        kept == SelectSeq(err_live(sf, lv, src_op),
                    LAMBDA v : renamed(sf, src_branch, v) # op_writes(sf, src_op)[2])
    IN  [i \in 1..Len(kept) |-> renamed(sf, src_branch, kept[i])]
\* the last live value of the target that receives the call's error value
renamed_nok_val(sf, lv, src_op) ==
    LET src_branch == op_branches(sf, src_op)[1]
        hit == SelectSeq(err_live(sf, lv, src_op),
                    LAMBDA v : renamed(sf, src_branch, v) = op_writes(sf, src_op)[2])
    IN  IF hit = <<>> THEN None ELSE Some(Last(hit))

\* faulty variant: every visit of a continuation site allocates an env of its own
cont_env_always_new(st, cont_site, ncaptures) ==
    LET env_idx == Len(st.env_gen) + 1
    IN  [st EXCEPT !.env_idx = env_idx,
                   !.env_gen = Append(@, ClosureEnvRecord(Some(ncaptures))),
                   !.needed_map = Insert(@, cont_site, env_idx),
                   !.needed = Append(@, <<cont_site, env_idx>>)]

\* the env index of a continuation site: the one it has, or a new one, which
\* records its captures and schedules the continuation
cont_env(st, cont_site, ncaptures) ==
    IF HasKey(st.needed_map, cont_site)
    THEN [st EXCEPT !.env_idx = st.needed_map[cont_site]]
    ELSE LET env_idx == Len(st.env_gen) + 1
         IN  [st EXCEPT !.env_idx = env_idx,
                        !.env_gen = Append(@, ClosureEnvRecord(Some(ncaptures))),
                        !.needed_map = Insert(@, cont_site, env_idx),
                        !.needed = Append(@, <<cont_site, env_idx>>)]

\* make_closure_env and bind_closure of one continuation
bind_continuation(sf, st, cont_site, buf) ==
    LET s1 == cont_env(st, cont_site, Len(buf))
        b1 == op_make_closure_env(s1.b, s1.env_idx, buf)
        env == last_value(b1)
        b2 == op_bind_closure(b1, [FunIdent(sf) EXCEPT !.lambda = Some(<<s1.env_idx, 0>>)], env)
    IN  [s1 EXCEPT !.b = b2, !.closure = last_value(b2)]

lookup_all(vm, vals) == [i \in 1..Len(vals) |-> vm[vals[i]]]

\* the two continuations of a call that is not a tail call
gen_continuations(sf, lv, src_op, st, okc, errc) ==
    LET ok_vals == ok_captures(sf, lv, src_op)
        err_vals == err_captures(sf, lv, src_op)
        ok == /\ Range(ok_vals) \subseteq DOMAIN st.val_map
              /\ op_after(sf, src_op) # None
              /\ op_branches(sf, src_op) # <<>>
              /\ Range(err_vals) \subseteq DOMAIN st.val_map
    IN  IF ~ok THEN [st EXCEPT !.ok = FALSE]
        ELSE LET s1 == bind_continuation(sf, st, SiteOp(op_after(sf, src_op)[1]),
                           <<okc, errc>> \o lookup_all(st.val_map, ok_vals))
                 s2 == bind_continuation(sf, s1,
                           SiteEbbCall(op_branches(sf, src_op)[1],
                                       renamed_nok_val(sf, lv, src_op)),
                           <<okc, errc>> \o lookup_all(st.val_map, err_vals))
             IN  [s2 EXCEPT !.ok_cont = s1.closure, !.err_cont = s2.closure]

\* faulty variant: a tail call passes the chunk's continuations in the wrong order
call_continuations_swapped(sf, lv, src_op, st, okc, errc) ==
    IF ~is_tail(sf, src_op)
    THEN gen_continuations(sf, lv, src_op, st, okc, errc)
    ELSE [st EXCEPT !.ok_cont = errc, !.err_cont = okc]

\* the continuations a call passes on: new closures, or the chunk's own
call_continuations(sf, lv, src_op, st, okc, errc) ==
    IF ~is_tail(sf, src_op)
    THEN gen_continuations(sf, lv, src_op, st, okc, errc)
    ELSE [st EXCEPT !.ok_cont = okc, !.err_cont = errc]

\* faulty variant: the two continuations follow the call's arguments
function_call_conts_last(sf, src_op, st) ==
    LET reads == op_reads(sf, src_op)
        buf == <<st.ok_cont, st.err_cont>>
    IN  IF op_kind(sf, src_op) = "Apply"
        THEN LET r == copy_reads(sf, st.b, st.val_map, Tail(reads))
             IN  IF ~r.ok \/ ~HasKey(st.val_map, reads[1]) THEN [st EXCEPT !.ok = FALSE]
                 ELSE [st EXCEPT !.b = op_tail_apply(r.b, st.val_map[reads[1]],
                                                     r.values \o buf)]
        ELSE LET r == copy_reads(sf, st.b, st.val_map, Tail(Tail(reads)))
                 n == copy_read(sf, r.b, st.val_map, reads[1])
                 m == copy_read(sf, n.b, st.val_map, reads[2])
             IN  IF ~(r.ok /\ n.ok /\ m.ok) THEN [st EXCEPT !.ok = FALSE]
                 ELSE [st EXCEPT !.b = op_tail_call(m.b, n.value, m.value,
                                                    r.values \o buf)]

\* the outgoing call of a continuation site
function_call(sf, src_op, st) ==
    LET reads == op_reads(sf, src_op)
        buf == <<st.ok_cont, st.err_cont>>
    IN  IF op_kind(sf, src_op) = "Apply"
        THEN LET r == copy_reads(sf, st.b, st.val_map, Tail(reads))
             IN  IF ~r.ok \/ ~HasKey(st.val_map, reads[1]) THEN [st EXCEPT !.ok = FALSE]
                 ELSE [st EXCEPT !.b = op_tail_apply(r.b, st.val_map[reads[1]],
                                                     buf \o r.values)]
        ELSE LET r == copy_reads(sf, st.b, st.val_map, Tail(Tail(reads)))
                 n == copy_read(sf, r.b, st.val_map, reads[1])
                 m == copy_read(sf, n.b, st.val_map, reads[2])
             IN  IF ~(r.ok /\ n.ok /\ m.ok) THEN [st EXCEPT !.ok = FALSE]
                 ELSE [st EXCEPT !.b = op_tail_call(m.b, n.value, m.value,
                                                    buf \o r.values)]

writes_ok(sf, src_op) ==
    IF is_tail(sf, src_op) THEN Len(op_writes(sf, src_op)) = 0
    ELSE Len(op_writes(sf, src_op)) = 2

gen_cont_site(sf, lv, src_op, st, okc, errc) ==
    IF ~(op_kind(sf, src_op) \in {"Call", "Apply"} /\ writes_ok(sf, src_op))
    THEN [st EXCEPT !.ok = FALSE]
    ELSE LET s1 == call_continuations(sf, lv, src_op, st, okc, errc)
         IN  IF ~s1.ok THEN s1 ELSE function_call(sf, src_op, s1)

(***************************************************************************)
(* transform_module and transform_function.                                *)
(***************************************************************************)
\* the derived order of FunctionIdent: name, arity, lambda (None first)
LambdaLess(x, y) ==
    \/ x = None /\ y # None
    \/ /\ x # None /\ y # None
       /\ \/ x[1][1] < y[1][1]
          \/ x[1][1] = y[1][1] /\ x[1][2] < y[1][2]
IdentLess(x, y) ==
    \/ x.name < y.name
    \/ x.name = y.name /\ x.arity < y.arity
    \/ x.name = y.name /\ x.arity = y.arity /\ LambdaLess(x.lambda, y.lambda)
RECURSIVE SortIdents(_)
SortIdents(S) ==
    IF S = {} THEN <<>>
    ELSE LET m == CHOOSE x \in S : \A y \in S \ {x} : IdentLess(x, y)
         IN  <<m>> \o SortIdents(S \ {m})
ModuleFunction(m, ident) == CHOOSE f \in m.functions : FunIdent(f) = ident

collect_cont_sites(sf) == {op \in DOMAIN sf.ops : op_kind(sf, op) \in {"Call", "Apply"}}

Panic(msg) ==
    /\ pc' = "panic"
    /\ panic' = Some(msg)

\* set the variables of gen_chunk to the state before its work loop
StartChunk(sf, lv, st, ct) ==
    LET e == chunk_entry(sf, lv, st, ct)
    IN  /\ site' = st
        /\ cont' = ct
        /\ IF e.ok
           THEN /\ pc' = "chunk"
                /\ panic' = panic
                /\ b' = e.b
                /\ val_map' = e.val_map
                /\ ebb_map' = e.ebb_map
                /\ ok_ret_cont' = e.ok_ret_cont
                /\ err_ret_cont' = e.err_ret_cont
                /\ env_vals' = e.env_vals
                /\ to_process' = <<e.src_first_op>>
                /\ handled_ops' = {}
           ELSE /\ Panic("gen_chunk: entry")
                /\ UNCHANGED <<b, val_map, ebb_map, ok_ret_cont, err_ret_cont,
                               env_vals, to_process, handled_ops>>

TransformModule ==
    /\ pc = "start"
    /\ pc' = "module"
    /\ funs' = Empty
    /\ env_gen' = module.envs
    /\ fun_idents' = SortIdents({FunIdent(f) : f \in module.functions})
    /\ UNCHANGED <<panic, module, result, tfVars, needed, needed_map, chunkVars, ssaVars, lexVars>>

TransformFunction ==
    /\ pc = "module"
    /\ fun_idents # <<>>
    /\ LET sf == ModuleFunction(module, Head(fun_idents))
           lv == LiveValues(sf)
       IN  /\ src_fun' = sf
           /\ live' = lv
           /\ cont_sites' = collect_cont_sites(sf)
           /\ StartChunk(sf, lv, SiteOp(ebb_first_op(sf, sf.ebb_entry)), None)
    /\ fun_idents' = Tail(fun_idents)
    /\ generated' = {}
    /\ generated2' = {}
    /\ needed' = <<>>
    /\ needed_map' = Empty
    /\ UNCHANGED <<module, funs, env_gen, result, ssaVars, lexVars>>

ReturnModule ==
    /\ pc = "module"
    /\ fun_idents = <<>>
    /\ pc' = "done"
    /\ result' = Some(Module(module.name, funs, env_gen))
    /\ UNCHANGED <<panic, module, fun_idents, funs, env_gen, tfVars, needed,
                   needed_map, chunkVars, ssaVars, lexVars>>

\* one round of the loop over the needed continuations
NextContinuation ==
    /\ pc = "function"
    /\ needed # <<>>
    /\ needed' = Front(needed)
    /\ LET st == Last(needed)[1]
           env == Last(needed)[2]
           seen == IF IsSiteOp(st) THEN st[2] \in generated2
                   ELSE <<st[2], st[3]>> \in generated
       IN  IF seen
           THEN UNCHANGED <<pc, panic, generated, generated2, chunkVars>>
           ELSE /\ generated' = IF IsSiteOp(st) THEN generated
                                ELSE generated \cup {<<st[2], st[3]>>}
                /\ generated2' = IF IsSiteOp(st) THEN generated2 \cup {st[2]}
                                 ELSE generated2
                /\ StartChunk(src_fun, live, st, Some(env))
    /\ UNCHANGED <<module, fun_idents, funs, env_gen, result, src_fun, live,
                   cont_sites, needed_map, ssaVars, lexVars>>

FunctionDone ==
    /\ pc = "function"
    /\ needed = <<>>
    /\ pc' = "module"
    /\ UNCHANGED <<panic, module, fun_idents, funs, env_gen, result, tfVars,
                   needed, needed_map, chunkVars, ssaVars, lexVars>>

(***************************************************************************)
(* gen_chunk: the work loop, one action per round.                         *)
(***************************************************************************)
InChunk == pc = "chunk" /\ to_process # <<>>
src_op == Head(to_process)

\* the op was handled before
SkipHandled ==
    /\ InChunk
    /\ src_op \in handled_ops
    /\ to_process' = Tail(to_process)
    /\ UNCHANGED <<pc, panic, module, fun_idents, funs, env_gen, result, tfVars,
                   needed, needed_map, site, cont, b, val_map, ebb_map,
                   handled_ops, ok_ret_cont, err_ret_cont, env_vals, ssaVars, lexVars>>

Fresh == InChunk /\ src_op \notin handled_ops

ContSiteOp ==
    /\ Fresh
    /\ src_op \in cont_sites
    /\ LET st == [ok |-> HasKey(ebb_map, src_op),
                  b |-> IF HasKey(ebb_map, src_op)
                        THEN position_at_end(b, ebb_map[src_op]) ELSE b,
                  val_map |-> val_map, env_gen |-> env_gen, needed |-> needed,
                  needed_map |-> needed_map, env_idx |-> 0, closure |-> 0,
                  ok_cont |-> 0, err_cont |-> 0]
           r == IF st.ok
                THEN gen_cont_site(src_fun, live, src_op, st, ok_ret_cont, err_ret_cont)
                ELSE st
       IN  IF r.ok
           THEN /\ b' = r.b
                /\ env_gen' = r.env_gen
                /\ needed' = r.needed
                /\ needed_map' = r.needed_map
                /\ to_process' = Tail(to_process)
                /\ handled_ops' = handled_ops \cup {src_op}
                /\ UNCHANGED <<pc, panic>>
           ELSE /\ Panic("gen_chunk: continuation site")
                /\ UNCHANGED <<b, env_gen, needed, needed_map, to_process, handled_ops>>
    /\ UNCHANGED <<module, fun_idents, funs, result, tfVars, site, cont, val_map,
                   ebb_map, ok_ret_cont, err_ret_cont, env_vals, ssaVars, lexVars>>

\* faulty variant: the continuation and the returned value change places
return_apply_swapped(bb, vm, em, sf, op, k) ==
    op_cont_apply(position_at_end(bb, em[op]), vm[op_reads(sf, op)[1]], <<k>>)

\* cont_apply of a return continuation to the operand of a return
return_apply(bb, vm, em, sf, op, k) ==
    op_cont_apply(position_at_end(bb, em[op]), k, <<vm[op_reads(sf, op)[1]]>>)

Return(kind, k) ==
    /\ Fresh
    /\ src_op \notin cont_sites
    /\ op_kind(src_fun, src_op) = kind
    /\ IF HasKey(ebb_map, src_op) /\ HasKey(val_map, op_reads(src_fun, src_op)[1])
       THEN /\ b' = return_apply(b, val_map, ebb_map, src_fun, src_op, k)
            /\ to_process' = Tail(to_process)
            /\ handled_ops' = handled_ops \cup {src_op}
            /\ UNCHANGED <<pc, panic>>
       ELSE /\ Panic("gen_chunk: return")
            /\ UNCHANGED <<b, to_process, handled_ops>>
    /\ UNCHANGED <<module, fun_idents, funs, env_gen, result, tfVars, needed,
                   needed_map, site, cont, val_map, ebb_map, ok_ret_cont,
                   err_ret_cont, env_vals, ssaVars, lexVars>>

ReturnOk == Return("ReturnOk", ok_ret_cont)
ReturnThrow == Return("ReturnThrow", err_ret_cont)

\* the ops to process after a copied op: the next op, then the branch targets
\* faulty variant: the branch targets are queued before the next op
outgoing_edges_branches_first(sf, op) ==
    [i \in 1..Len(op_branches(sf, op)) |->
        ebb_first_op(sf, ebb_call_target(sf, op_branches(sf, op)[i]))]
    \o (IF op_after(sf, op) # None THEN op_after(sf, op) ELSE <<>>)

\* the ops queued after a copied op: the next op, then the branch targets
outgoing_edges(sf, op) ==
    (IF op_after(sf, op) # None THEN op_after(sf, op) ELSE <<>>)
    \o [i \in 1..Len(op_branches(sf, op)) |->
           ebb_first_op(sf, ebb_call_target(sf, op_branches(sf, op)[i]))]

CopyOp ==
    /\ Fresh
    /\ src_op \notin cont_sites
    /\ op_kind(src_fun, src_op) \notin {"ReturnOk", "ReturnThrow"}
    /\ LET r == IF HasKey(ebb_map, src_op)
                THEN copy_op(src_fun, src_op, position_at_end(b, ebb_map[src_op]),
                             val_map, ebb_map)
                ELSE [ok |-> FALSE]
       IN  IF r.ok
           THEN /\ b' = r.b
                /\ val_map' = r.val_map
                /\ ebb_map' = r.ebb_map
                /\ to_process' = Tail(to_process) \o outgoing_edges(src_fun, src_op)
                /\ handled_ops' = handled_ops \cup {src_op}
                /\ UNCHANGED <<pc, panic>>
           ELSE /\ Panic("copy_op")
                /\ UNCHANGED <<b, val_map, ebb_map, to_process, handled_ops>>
    /\ UNCHANGED <<module, fun_idents, funs, env_gen, result, tfVars, needed,
                   needed_map, site, cont, ok_ret_cont, err_ret_cont, env_vals,
                   ssaVars, lexVars>>

\* the work list is empty: gen_chunk returns and the chunk joins the result
ChunkDone ==
    /\ pc = "chunk"
    /\ to_process = <<>>
    /\ pc' = "function"
    /\ funs' = Insert(funs, b.fun.ident, b.fun)
    /\ UNCHANGED <<panic, module, fun_idents, env_gen, result, tfVars, needed,
                   needed_map, chunkVars, ssaVars, lexVars>>

InitCPS ==
    /\ pc = "start"
    /\ panic = None
    /\ module \in Modules
    /\ fun_idents = <<>>
    /\ funs = Empty
    /\ env_gen = <<>>
    /\ result = None
    /\ src_fun = None
    /\ live = None
    /\ cont_sites = {}
    /\ needed = <<>>
    /\ needed_map = Empty
    /\ generated = {}
    /\ generated2 = {}
    /\ site = None
    /\ cont = None
    /\ b = None
    /\ to_process = <<>>
    /\ val_map = Empty
    /\ ebb_map = Empty
    /\ handled_ops = {}
    /\ ok_ret_cont = 0
    /\ err_ret_cont = 0
    /\ env_vals = <<>>
    /\ hir = <<>>
    /\ ssa = <<>>
    /\ var_ssa = <<>>
    /\ stack = <<>>
    /\ scopes = <<>>
    /\ next_ssa = 0
    /\ ssa_pc = "idle"
    /\ tracking = <<>>
    /\ lambda_envs = <<>>
    /\ lambda_env = <<>>
    /\ env_ssa = <<>>
    /\ is_lambda = <<>>
    /\ scanner = None
    /\ token = None
    /\ token_start = 0
    /\ token_end = 0
    /\ eof = FALSE
    /\ str_buf = <<>>
    /\ stream = <<>>
    /\ lex_pc = "idle"

NextCPS ==
    \/ TransformModule
    \/ TransformFunction
    \/ ReturnModule
    \/ NextContinuation
    \/ FunctionDone
    \/ SkipHandled
    \/ ContSiteOp
    \/ ReturnOk
    \/ ReturnThrow
    \/ CopyOp
    \/ ChunkDone

SpecCPS == InitCPS /\ [][NextCPS]_vars

(***************************************************************************)
(* Reading the transformed functions.                                      *)
(***************************************************************************)
OutFuns == {funs[i] : i \in DOMAIN funs}
\* the chunks finished so far and the one under construction
Chunks == OutFuns \cup (IF pc = "chunk" THEN {b.fun} ELSE {})
OpsOf(f) == UNION {{<<e, i>> : i \in DOMAIN f.ebbs[e].ops} : e \in DOMAIN f.ebbs}
OpAt(f, p) == f.ebbs[p[1]].ops[p[2]]
EntryArgs(f) == f.ebbs[1].args
IsContinuation(f) == "Continuation" \in f.attributes
IsCallOp(op) == op.kind \in {"Call", "Apply"}
\* where a call carries its callee, and where its two continuations
CalleeLen(op) == IF op.kind = "Call" THEN 2 ELSE 1
OkPos(op) == CalleeLen(op) + 1
ErrPos(op) == CalleeLen(op) + 2
CallArgs(op) == SubSeq(op.reads, CalleeLen(op) + 3, Len(op.reads))
\* every read of value v in f is one of the uses allowed by Allowed(op, position)
UsedOnlyAs(f, v, Allowed(_, _)) ==
    \A p \in OpsOf(f) :
        /\ \A i \in DOMAIN OpAt(f, p).reads :
               OpAt(f, p).reads[i] = v => Allowed(OpAt(f, p), i)
        /\ \A c \in Range(OpAt(f, p).branches) : v \notin Range(c.args)
\* the callee of a cont_apply, or the ok / err continuation of a tail call
ContinuationUse(op, i) ==
    \/ op.kind = "ContApply" /\ i = 1
    \/ IsCallOp(op) /\ op.call_type = "Tail" /\ i \in {OkPos(op), ErrPos(op)}
\* ... or slot 0 / 1 of the env of a new continuation
ContinuationOrCapture(op, i) ==
    \/ ContinuationUse(op, i)
    \/ op.kind = "MakeClosureEnv" /\ i \in {1, 2}
UnpackUse(op, i) == op.kind = "UnpackEnv" /\ i = 1
\* the two return continuations of a finished chunk: entry arguments 0 and 1
\* of an entry chunk, env slots 0 and 1 of a continuation chunk
RetConts(f) ==
    IF IsContinuation(f) THEN SubSeq(f.ebbs[1].ops[1].writes, 1, 2)
    ELSE SubSeq(EntryArgs(f), 1, 2)

(***************************************************************************)
(* C1, as stated: every output function has at least two entry arguments   *)
(* and the first two are used only as the callee of cont_apply or as the   *)
(* ok/err continuation of a tail call/apply.                               *)
(***************************************************************************)
C1_AsStated ==
    \A f \in OutFuns :
        /\ Len(EntryArgs(f)) >= 2
        /\ UsedOnlyAs(f, EntryArgs(f)[1], ContinuationUse)
        /\ UsedOnlyAs(f, EntryArgs(f)[2], ContinuationUse)

(***************************************************************************)
(* C1, amended: every output function has at least two entry arguments.    *)
(* In an entry chunk the first two are the return continuations; in a      *)
(* continuation chunk the two arguments are the env, used only by          *)
(* unpack_env, and the result, and the return continuations are env slots  *)
(* 0 and 1.  The return continuations are used only as the callee of       *)
(* cont_apply, as the ok/err continuation of a tail call/apply, or as slot *)
(* 0/1 of the env of a new continuation.                                   *)
(***************************************************************************)
C1_SignatureLaw ==
    \A f \in OutFuns :
        /\ Len(EntryArgs(f)) >= 2
        /\ IsContinuation(f) =>
              /\ Len(EntryArgs(f)) = 2
              /\ f.ebbs[1].ops[1].kind = "UnpackEnv"
              /\ UsedOnlyAs(f, EntryArgs(f)[1], UnpackUse)
        /\ UsedOnlyAs(f, RetConts(f)[1], ContinuationOrCapture)
        /\ UsedOnlyAs(f, RetConts(f)[2], ContinuationOrCapture)
\* an entry chunk that captures its continuations and a continuation chunk
\* that applies one are both finished
C1_Witness ==
    /\ \E f \in OutFuns :
          /\ ~IsContinuation(f)
          /\ \E p \in OpsOf(f) : OpAt(f, p).kind = "MakeClosureEnv"
    /\ \E f \in OutFuns :
          /\ IsContinuation(f)
          /\ \E p \in OpsOf(f) :
                OpAt(f, p).kind = "ContApply" /\ OpAt(f, p).reads[1] = RetConts(f)[1]

(***************************************************************************)
(* C2: no ReturnOk / ReturnThrow survives, whatever the operand of the     *)
(* source return (computed or constant): the return becomes a cont_apply   *)
(* and the transform does not abort on it.                                 *)
(***************************************************************************)
C2_NoReturnsSurvive ==
    /\ \A f \in Chunks : \A p \in OpsOf(f) :
           OpAt(f, p).kind \notin {"ReturnOk", "ReturnThrow"}
    /\ panic # Some("gen_chunk: return")

(***************************************************************************)
(* C3: every Call / Apply of a chunk is a tail call and the last op of its *)
(* EBB, and the call emitted for a source call site carries the callee,    *)
(* then [ok_cont, err_cont], then the original arguments in order.         *)
(***************************************************************************)
TailLaw(f) ==
    \A p \in OpsOf(f) :
        IsCallOp(OpAt(f, p)) =>
            /\ OpAt(f, p).call_type = "Tail"
            /\ p[2] = Len(f.ebbs[p[1]].ops)
\* destination value dv of function f stands for source value sv
CopyOf(f, vm, sv, dv) ==
    IF value_is_constant(src_fun, sv)
    THEN HasKey(f.constants, dv) /\ f.constants[dv] = sv
    ELSE HasKey(vm, sv) /\ dv = vm[sv]
\* a round of the work loop that handled a continuation site without a panic
ContSiteStep == Fresh /\ src_op \in cont_sites /\ pc' = "chunk"
C3_CallShape ==
    ContSiteStep =>
        LET ops == b'.fun.ebbs[ebb_map[src_op]].ops
            call == Last(ops)
            reads == op_reads(src_fun, src_op)
            n == CalleeLen(call)
        IN  /\ call.kind = op_kind(src_fun, src_op)
            /\ call.call_type = "Tail"
            /\ Len(call.reads) = Len(reads) + 2
            /\ \A i \in 1..Len(reads) :
                   CopyOf(b'.fun, val_map, reads[i],
                          call.reads[IF i <= n THEN i ELSE i + 2])
            /\ IF is_tail(src_fun, src_op)
               THEN /\ call.reads[OkPos(call)] = ok_ret_cont
                    /\ call.reads[ErrPos(call)] = err_ret_cont
               ELSE /\ Len(ops) >= 5
                    /\ ops[Len(ops) - 3].kind = "BindClosure"
                    /\ ops[Len(ops) - 1].kind = "BindClosure"
                    /\ call.reads[OkPos(call)] = ops[Len(ops) - 3].writes[1]
                    /\ call.reads[ErrPos(call)] = ops[Len(ops) - 1].writes[1]
C3_TailPosition == [][C3_CallShape /\ (\A f \in Chunks : TailLaw(f))']_vars
\* a finished chunk ends an EBB with a call that has new continuations and an
\* argument, and a finished continuation chunk holds a call in a later EBB
C3_Witness ==
    /\ \E f \in OutFuns : \E p \in OpsOf(f) :
          IsCallOp(OpAt(f, p)) /\ p[2] >= 5 /\ Len(CallArgs(OpAt(f, p))) >= 1
    /\ \E f \in OutFuns : \E p \in OpsOf(f) :
          IsContinuation(f) /\ IsCallOp(OpAt(f, p)) /\ p[1] > 1

(***************************************************************************)
(* C4: within one transform_function run a continuation site (a key) has   *)
(* one env index and one continuation function, however many chunks reach  *)
(* it, and different keys have different env indices and functions.        *)
(***************************************************************************)
Injective(m) == \A x \in DOMAIN m : \A y \in DOMAIN m : m[x] = m[y] => x = y
SameSource(f) ==
    f.ident.name = src_fun.ident.name /\ f.ident.arity = src_fun.ident.arity
SrcChunks == {f \in Chunks : SameSource(f)}
GeneratedSites ==
    {SiteOp(op) : op \in generated2} \cup {SiteEbbCall(g[1], g[2]) : g \in generated}
PendingSites == {needed[i][1] : i \in DOMAIN needed}
\* the env index a bind_closure or make_closure_env op names
EnvOf(op) == IF op.kind = "BindClosure" THEN op.ident[1].lambda[1][1] ELSE op.env[1]
C4_Sharing ==
    pc \in {"chunk", "function"} =>
        /\ Injective(needed_map)
        \* a key is pending or generated, never both, and pending once
        /\ DOMAIN needed_map = PendingSites \cup GeneratedSites
        /\ PendingSites \cap GeneratedSites = {}
        /\ \A i \in DOMAIN needed : \A j \in DOMAIN needed :
               needed[i][1] = needed[j][1] => i = j
        /\ \A i \in DOMAIN needed : needed[i][2] = needed_map[needed[i][1]]
        \* every generated key has its function, and there are no others
        /\ {f.ident : f \in {g \in SrcChunks : IsContinuation(g)}}
             = {chunk_ident(src_fun, Some(needed_map[k])) : k \in GeneratedSites}
        \* every closure made in a chunk names the env of a key
        /\ \A f \in SrcChunks : \A p \in OpsOf(f) :
               OpAt(f, p).kind \in {"BindClosure", "MakeClosureEnv"} =>
                   EnvOf(OpAt(f, p)) \in Range(needed_map)
        \* the envs added so far: one per key of this and of earlier functions
        /\ Len(env_gen) - Len(module.envs)
             = Cardinality(DOMAIN needed_map)
               + Cardinality({f \in OutFuns : IsContinuation(f) /\ ~SameSource(f)})
\* two finished chunks bind a closure for the same continuation
C4_Witness ==
    /\ pc = "function"
    /\ needed = <<>>
    /\ \E f \in SrcChunks : \E g \in SrcChunks \ {f} :
          \E p \in OpsOf(f) : \E q \in OpsOf(g) :
              /\ OpAt(f, p).kind = "BindClosure"
              /\ OpAt(g, q).kind = "BindClosure"
              /\ EnvOf(OpAt(f, p)) = EnvOf(OpAt(g, q))

(***************************************************************************)
(* C5: for every continuation chunk with env index E, the number of values *)
(* it unpacks equals the number of values of every make_closure_env(E, ..) *)
(* and the captures_num of E; slots 0 and 1 are the return continuations;  *)
(* and the source value bound to slot i >= 2 is the value stored in slot i *)
(* when the env was built (for a throw continuation: the target's name of  *)
(* the value the EBB call passes).                                         *)
(***************************************************************************)
\* the key of a continuation chunk of the function being transformed
SiteOfEnv(env_idx) == CHOOSE k \in DOMAIN needed_map : needed_map[k] = env_idx
\* the source values stored, in order, in the env of key k when it is built
StoredCaptures(k) ==
    IF IsSiteOp(k) THEN ok_captures(src_fun, live, op_before(src_fun, k[2])[1])
    ELSE err_captures(src_fun, live, ebb_call_source(src_fun, k[2]))
\* the value whose copy slot holds source value v of the chunk of key k
StoredFor(k, v) == IF IsSiteOp(k) THEN v ELSE renamed(src_fun, k[2], v)
C5_EnvLayout ==
    pc \in {"chunk", "function"} =>
        \A f \in {g \in SrcChunks : IsContinuation(g)} :
            LET env_idx == f.ident.lambda[1][1]
                unpacked == f.ebbs[1].ops[1].writes
                k == SiteOfEnv(env_idx)
                bound == site_env_vals(src_fun, live, k)
            IN  /\ env_gen[env_idx].captures_num = Some(Len(unpacked))
                /\ \A g \in SrcChunks : \A p \in OpsOf(g) :
                       (OpAt(g, p).kind = "MakeClosureEnv" /\ EnvOf(OpAt(g, p)) = env_idx)
                           => /\ Len(OpAt(g, p).reads) = Len(unpacked)
                              /\ OpAt(g, p).reads[1] = RetConts(g)[1]
                              /\ OpAt(g, p).reads[2] = RetConts(g)[2]
                /\ Len(bound) + 2 = Len(unpacked)
                /\ Len(bound) = Len(StoredCaptures(k))
                /\ \A i \in DOMAIN bound : StoredFor(k, bound[i]) = StoredCaptures(k)[i]

(***************************************************************************)
(* C6: the entry chunk keeps the source ident, is not tagged Continuation, *)
(* and its entry arguments are [ok_ret_cont, err_ret_cont] followed by one *)
(* argument per original entry argument, in order, each mapped to it.      *)
(***************************************************************************)
EntryChunkShape(f, src_args) ==
    /\ f.ident = src_fun.ident
    /\ ~IsContinuation(f)
    /\ Len(EntryArgs(f)) = Len(src_args) + 2
C6_EntryChunk ==
    /\ (pc = "chunk" /\ cont = None) =>
          LET src_args == ebb_args(src_fun, src_fun.ebb_entry)
          IN  /\ EntryChunkShape(b.fun, src_args)
              /\ SubSeq(EntryArgs(b.fun), 1, 2) = <<ok_ret_cont, err_ret_cont>>
              /\ \A i \in DOMAIN src_args :
                     /\ HasKey(val_map, src_args[i])
                     /\ val_map[src_args[i]] = EntryArgs(b.fun)[i + 2]
    /\ \A sf \in module.functions :
          HasKey(funs, sf.ident) =>
              /\ funs[sf.ident].ident = sf.ident
              /\ ~IsContinuation(funs[sf.ident])
              /\ Len(EntryArgs(funs[sf.ident])) = Len(ebb_args(sf, sf.ebb_entry)) + 2
\* the entry chunk of a function of two arguments, its first op handled
C6_Witness ==
    /\ pc = "chunk"
    /\ cont = None
    /\ handled_ops # {}
    /\ Len(EntryArgs(b.fun)) = 4

(***************************************************************************)
(* C7: the transformed function of a closure still takes the env as its    *)
(* first argument; the ok and err continuations are the second and third.  *)
(***************************************************************************)
C7_ClosureEntry ==
    (pc = "chunk" /\ cont = None /\ IsClosure(src_fun)) =>
        /\ val_map[ebb_args(src_fun, src_fun.ebb_entry)[1]] = EntryArgs(b.fun)[1]
        /\ ok_ret_cont = EntryArgs(b.fun)[2]
        /\ err_ret_cont = EntryArgs(b.fun)[3]

(***************************************************************************)
(* C8: a source tail call becomes one tail call whose continuations are    *)
(* the chunk's own ok_ret_cont and err_ret_cont (entry arguments 0 and 1   *)
(* of an entry chunk, env slots 0 and 1 of a continuation chunk); it binds *)
(* no closure, allocates no env and schedules no continuation.             *)
(***************************************************************************)
C8_TailStep ==
    (ContSiteStep /\ is_tail(src_fun, src_op)) =>
        LET e == ebb_map[src_op]
            call == Last(b'.fun.ebbs[e].ops)
        IN  /\ b'.fun.ebbs = [b.fun.ebbs EXCEPT ![e].ops = Append(@, call)]
            /\ IsCallOp(call)
            /\ call.call_type = "Tail"
            /\ call.reads[OkPos(call)] = ok_ret_cont
            /\ call.reads[ErrPos(call)] = err_ret_cont
            /\ env_gen' = env_gen
            /\ needed' = needed
            /\ needed_map' = needed_map
            /\ to_process' = Tail(to_process)
C8_OwnContinuations ==
    pc = "chunk" =>
        /\ <<ok_ret_cont, err_ret_cont>> = RetConts(b.fun)
        /\ cont # None => b.fun.ebbs[1].ops[1].reads = <<EntryArgs(b.fun)[1]>>
C8_TailCall == [][C8_TailStep /\ C8_OwnContinuations']_vars
\* a tail call of an entry chunk and one of a continuation chunk, each with
\* the chunk's own continuations
C8_Witness ==
    /\ \E f \in OutFuns : \E p \in OpsOf(f) :
          /\ ~IsContinuation(f)
          /\ IsCallOp(OpAt(f, p))
          /\ OpAt(f, p).reads[OkPos(OpAt(f, p))] = EntryArgs(f)[1]
    /\ \E f \in OutFuns : \E p \in OpsOf(f) :
          /\ IsContinuation(f)
          /\ IsCallOp(OpAt(f, p))
          /\ OpAt(f, p).reads[OkPos(OpAt(f, p))] = f.ebbs[1].ops[1].writes[1]

(***************************************************************************)
(* C9: the returned module has the input's name, one entry chunk per input *)
(* function under its ident, one continuation chunk per env index added by *)
(* the transform under the ident with lambda = (env_idx, 0), tagged        *)
(* Continuation, and no others; its env table is the input's table         *)
(* followed by the new envs, each with the length of its capture vector.   *)
(***************************************************************************)
NewEnvs(m) == (Len(module.envs) + 1)..Len(m.envs)
ModuleOps(m) ==
    UNION {{OpAt(m.functions[i], p) : p \in OpsOf(m.functions[i])} : i \in DOMAIN m.functions}
C9_Module ==
    pc = "done" =>
        LET m == result[1]
        IN  /\ m.name = module.name
            /\ \A sf \in module.functions :
                   /\ HasKey(m.functions, sf.ident)
                   /\ m.functions[sf.ident].ident = sf.ident
                   /\ ~IsContinuation(m.functions[sf.ident])
            /\ \A e \in NewEnvs(m) :
                   /\ Cardinality({i \in DOMAIN m.functions : i.lambda = Some(<<e, 0>>)}) = 1
                   /\ \A i \in DOMAIN m.functions :
                          i.lambda = Some(<<e, 0>>) =>
                              /\ IsContinuation(m.functions[i])
                              /\ m.functions[i].ident = i
                              /\ \E sf \in module.functions :
                                     i = [sf.ident EXCEPT !.lambda = Some(<<e, 0>>)]
                   /\ m.envs[e].captures_num # None
                   /\ \E op \in ModuleOps(m) : op.kind = "MakeClosureEnv" /\ op.env = Some(e)
                   /\ \A op \in ModuleOps(m) :
                          (op.kind = "MakeClosureEnv" /\ op.env = Some(e))
                              => m.envs[e].captures_num = Some(Len(op.reads))
            /\ Cardinality(DOMAIN m.functions)
                 = Cardinality(module.functions) + Cardinality(NewEnvs(m))
            /\ SubSeq(m.envs, 1, Len(module.envs)) = module.envs
\* a module of two functions is returned with continuations added
C9_Witness ==
    /\ pc = "done"
    /\ Cardinality(module.functions) = 2
    /\ Len(result[1].envs) >= Len(module.envs) + 2
    /\ Cardinality(DOMAIN result[1].functions) >= 4

(***************************************************************************)
(* HIR scope lowering: assign_ssa_single_expression.  The HIR tree is a    *)
(* table of nodes (node 1 is the root); the recursion of the pass is the   *)
(* stack of frames <<node, idx>>, idx counting the steps of the node's     *)
(* handler already taken.  The clauses of a Case or Receive and the        *)
(* closures of a BindClosures are nodes of the table as well.              *)
(***************************************************************************)
Node(kind, var, vs, val, body, elems) ==
    [kind |-> kind, var |-> var, vars |-> vs, val |-> val, body |-> body, elems |-> elems,
     catch_vars |-> <<>>, catch |-> 0, clauses |-> <<>>, patterns |-> <<>>, guard |-> 0,
     timeout_time |-> 0, timeout_body |-> 0, closures |-> <<>>]
Variable(name) == Node("Variable", name, <<>>, <<>>, 0, <<>>)
Atomic == Node("Atomic", "", <<>>, <<>>, 0, <<>>)
Let(vs, val, body) == Node("Let", "", vs, val, body, <<>>)
Tuple(elems) == Node("Tuple", "", <<>>, <<>>, 0, elems)
Do(e1, e2) == Node("Do", "", <<>>, e1, e2, <<>>)
NamedFunction(name) == Node("NamedFunction", name, <<>>, <<>>, 0, <<>>)
ApplyCall(fun, args) == Node("ApplyCall", "", <<>>, <<>>, fun, args)
Try(body, then_vars, then, catch_vars, catch) ==
    [Node("Try", "", then_vars, body, then, <<>>)
        EXCEPT !.catch_vars = catch_vars, !.catch = catch]
Case(val, values, clauses) ==
    [Node("Case", "", <<>>, val, 0, values) EXCEPT !.clauses = clauses]
\* a clause of a Case or Receive: its patterns' bind lists, guard and body
Clause(patterns, guard, body) ==
    [Node("Clause", "", <<>>, <<>>, body, <<>>)
        EXCEPT !.patterns = patterns, !.guard = guard]
Receive(pattern_values, clauses, timeout_time, timeout_body) ==
    [Node("Receive", "", <<>>, <<>>, 0, pattern_values)
        EXCEPT !.clauses = clauses, !.timeout_time = timeout_time,
               !.timeout_body = timeout_body]
BindClosure(args, body) == Node("BindClosure", "", args, <<>>, body, <<>>)
\* a closure of a BindClosures group: its alias, arguments and body
Closure(alias, args, body) == Node("Closure", alias, args, <<>>, body, <<>>)
BindClosures(closures, body) ==
    [Node("BindClosures", "", <<>>, <<>>, body, <<>>) EXCEPT !.closures = closures]

\* Let x = 1 in Let y = x in y
LetLetTree ==
    <<Let(<<"x">>, <<2>>, 3), Atomic, Let(<<"y">>, <<4>>, 5), Variable("x"), Variable("y")>>
\* Let y = 1 in fun(x) -> Let a = y in a
ClosureTree ==
    <<Let(<<"y">>, <<2>>, 3), Atomic, BindClosure(<<"x">>, 4), Let(<<"a">>, <<5>>, 6),
      Variable("y"), Variable("a")>>
\* Let y = 1 in Let z = 2 in fun(x) -> {z, fun(w) -> {y, x, w, z}, y}
NestedClosureTree ==
    <<Let(<<"y">>, <<2>>, 3), Atomic, Let(<<"z">>, <<4>>, 5), Atomic,
      BindClosure(<<"x">>, 6), Tuple(<<7, 8, 14>>), Variable("z"),
      BindClosure(<<"w">>, 9), Tuple(<<10, 11, 12, 13>>), Variable("y"), Variable("x"),
      Variable("w"), Variable("z"), Variable("y")>>
\* Let x = 1 in Let y = x in fun() -> {x, y, x}
AliasClosureTree ==
    <<Let(<<"x">>, <<2>>, 3), Atomic, Let(<<"y">>, <<4>>, 5), Variable("x"),
      BindClosure(<<>>, 6), Tuple(<<7, 8, 9>>), Variable("x"), Variable("y"),
      Variable("x")>>
\* letrec f = fun(a) -> apply g(a); g = fun(b) -> apply f(b) in f
LetrecTree ==
    <<BindClosures(<<2, 6>>, 10), Closure("f", <<"a">>, 3), ApplyCall(4, <<5>>),
      NamedFunction("g"), Variable("a"), Closure("g", <<"b">>, 7), ApplyCall(8, <<9>>),
      NamedFunction("f"), Variable("b"), NamedFunction("f")>>
\* Let y = 1 in letrec f = fun(a) -> {y, f, a, y} in {f, y}
LetrecCaptureTree ==
    <<Let(<<"y">>, <<2>>, 3), Atomic, BindClosures(<<4>>, 10), Closure("f", <<"a">>, 5),
      Tuple(<<6, 7, 8, 9>>), Variable("y"), NamedFunction("f"), Variable("a"),
      Variable("y"), Tuple(<<11, 12>>), NamedFunction("f"), Variable("y")>>
HirTrees ==
    {LetLetTree, ClosureTree, NestedClosureTree, AliasClosureTree, LetrecTree,
     LetrecCaptureTree,
     \* Let x = 1 in Let x = 2 in x
     <<Let(<<"x">>, <<2>>, 3), Atomic, Let(<<"x">>, <<4>>, 5), Atomic, Variable("x")>>,
     \* Let <x, y> = <1, 2> in {y, x}
     <<Let(<<"x", "y">>, <<2, 3>>, 4), Atomic, Atomic, Tuple(<<5, 6>>),
       Variable("y"), Variable("x")>>,
     \* do 1 2
     <<Do(<<2>>, 3), Atomic, Atomic>>,
     \* y
     <<Variable("y")>>,
     \* Let x = x in x
     <<Let(<<"x">>, <<2>>, 3), Variable("x"), Variable("x")>>,
     \* {Let x = 1 in x, x}
     <<Tuple(<<2, 5>>), Let(<<"x">>, <<3>>, 4), Atomic, Variable("x"), Variable("x")>>,
     \* Let x = 1 in do x {x, 2}
     <<Let(<<"x">>, <<2>>, 3), Atomic, Do(<<4>>, 5), Variable("x"), Tuple(<<6, 7>>),
       Variable("x"), Atomic>>,
     \* Let <x, y> = 1 in x
     <<Let(<<"x", "y">>, <<2>>, 3), Atomic, Variable("x")>>,
     \* Let x = 1 in Let y = {x} in {y, x}
     <<Let(<<"x">>, <<2>>, 3), Atomic, Let(<<"y">>, <<4>>, 6), Tuple(<<5>>),
       Variable("x"), Tuple(<<7, 8>>), Variable("y"), Variable("x")>>,
     \* Let x = 1 in Let y = 2 in {x, y}
     <<Let(<<"x">>, <<2>>, 3), Atomic, Let(<<"y">>, <<4>>, 5), Atomic, Tuple(<<6, 7>>),
       Variable("x"), Variable("y")>>,
     \* do (Let x = 1 in x) (Let x = 2 in x)
     <<Do(<<2>>, 5), Let(<<"x">>, <<3>>, 4), Atomic, Variable("x"),
       Let(<<"x">>, <<6>>, 7), Atomic, Variable("x")>>,
     \* Let x = (Let y = 1 in y) in {x, y}
     <<Let(<<"x">>, <<2>>, 5), Let(<<"y">>, <<3>>, 4), Atomic, Variable("y"),
       Tuple(<<6, 7>>), Variable("x"), Variable("y")>>,
     \* Let x = 1 in Let y = x in Let x = {y} in x
     <<Let(<<"x">>, <<2>>, 3), Atomic, Let(<<"y">>, <<4>>, 5), Variable("x"),
       Let(<<"x">>, <<6>>, 8), Tuple(<<7>>), Variable("y"), Variable("x")>>,
     \* try 1 of <x> -> x catch <e> -> e
     <<Try(<<2>>, <<"x">>, 3, <<"e">>, 4), Atomic, Variable("x"), Variable("e")>>,
     \* try 1 of <x> -> x catch <e> -> x
     <<Try(<<2>>, <<"x">>, 3, <<"e">>, 4), Atomic, Variable("x"), Variable("x")>>,
     \* Let x = 1 in try x of <x> -> x catch <x, r> -> {x, r}
     <<Let(<<"x">>, <<2>>, 3), Atomic, Try(<<4>>, <<"x">>, 5, <<"x", "r">>, 6),
       Variable("x"), Variable("x"), Tuple(<<7, 8>>), Variable("x"), Variable("r")>>,
     \* try <1, 2> of <x> -> x catch <e> -> e
     <<Try(<<2, 3>>, <<"x">>, 4, <<"e">>, 5), Atomic, Atomic, Variable("x"),
       Variable("e")>>,
     \* try <> of <> -> 1 catch <> -> 2
     <<Try(<<>>, <<>>, 2, <<>>, 3), Atomic, Atomic>>,
     \* case 1 of (2) <x> when x -> x; <y> when 3 -> y
     <<Case(<<2>>, <<3>>, <<4, 7>>), Atomic, Atomic, Clause(<<<<"x">>>>, 5, 6),
       Variable("x"), Variable("x"), Clause(<<<<"y">>>>, 8, 9), Atomic, Variable("y")>>,
     \* case 1 of <x> when 2 -> x; <y> when 3 -> x
     <<Case(<<2>>, <<>>, <<3, 6>>), Atomic, Clause(<<<<"x">>>>, 4, 5), Atomic,
       Variable("x"), Clause(<<<<"y">>>>, 7, 8), Atomic, Variable("x")>>,
     \* Let x = 1 in case x of <x> <y, x> when y -> x
     <<Let(<<"x">>, <<2>>, 3), Atomic, Case(<<4>>, <<>>, <<5>>), Variable("x"),
       Clause(<<<<"x">>, <<"y", "x">>>>, 6, 7), Variable("y"), Variable("x")>>,
     \* case 1 of (x) <x> when 2 -> 3
     <<Case(<<2>>, <<3>>, <<4>>), Atomic, Variable("x"), Clause(<<<<"x">>>>, 5, 6),
       Atomic, Atomic>>,
     \* receive (1) <m> when 2 -> m after 3 -> 4
     <<Receive(<<2>>, <<3>>, 6, 7), Atomic, Clause(<<<<"m">>>>, 4, 5), Atomic,
       Variable("m"), Atomic, Atomic>>,
     \* receive <m> when m -> 1 after 2 -> m
     <<Receive(<<>>, <<2>>, 5, 6), Clause(<<<<"m">>>>, 3, 4), Variable("m"), Atomic,
       Atomic, Variable("m")>>,
     \* Let t = 1 in receive <m> when 2 -> m; <n> when n -> t after t -> t
     <<Let(<<"t">>, <<2>>, 3), Atomic, Receive(<<>>, <<4, 7>>, 10, 11),
       Clause(<<<<"m">>>>, 5, 6), Atomic, Variable("m"), Clause(<<<<"n">>>>, 8, 9),
       Variable("n"), Variable("t"), Variable("t"), Variable("t")>>,
     \* Let f = 1 in apply f(f, 2)
     <<Let(<<"f">>, <<2>>, 3), Atomic, ApplyCall(4, <<5, 6>>), Variable("f"),
       Variable("f"), Atomic>>,
     \* apply (Let x = 1 in x)(x)
     <<ApplyCall(2, <<5>>), Let(<<"x">>, <<3>>, 4), Atomic, Variable("x"),
       Variable("x")>>,
     \* h
     <<NamedFunction("h")>>,
     \* fun(x) -> {x, y}
     <<BindClosure(<<"x">>, 2), Tuple(<<3, 4>>), Variable("x"), Variable("y")>>,
     \* {fun(x) -> x, x}
     <<Tuple(<<2, 4>>), BindClosure(<<"x">>, 3), Variable("x"), Variable("x")>>,
     \* Let y = 1 in fun(y) -> fun() -> y
     <<Let(<<"y">>, <<2>>, 3), Atomic, BindClosure(<<"y">>, 4), BindClosure(<<>>, 5),
       Variable("y")>>,
     \* letrec f = fun() -> fun() -> f in 1
     <<BindClosures(<<2>>, 5), Closure("f", <<>>, 3), BindClosure(<<>>, 4),
       NamedFunction("f"), Atomic>>,
     \* letrec f = fun(a) -> g; g = fun(a) -> a in a
     <<BindClosures(<<2, 4>>, 6), Closure("f", <<"a">>, 3), NamedFunction("g"),
       Closure("g", <<"a">>, 5), Variable("a"), Variable("a")>>,
     \* Let y = 1 in Let z = y in letrec f = fun() -> z; g = fun(y) -> {y, z} in 2
     <<Let(<<"y">>, <<2>>, 3), Atomic, Let(<<"z">>, <<4>>, 5), Variable("y"),
       BindClosures(<<6, 8>>, 12), Closure("f", <<>>, 7), Variable("z"),
       Closure("g", <<"y">>, 9), Tuple(<<10, 11>>), Variable("y"), Variable("z"),
       Atomic>>}

\* ScopeDefinition::Variable(name), ScopeDefinition::Function(name)
VariableKey(name) == <<"Variable", name>>
FunctionKey(name) == <<"Function", name>>

\* ---- ScopeTracker and SSAVariableGenerator ----
new_ssa(gen) == [gen |-> gen + 1, ssa |-> gen + 1]
\* n calls of new_ssa in a row
new_ssas(gen, n) == [gen |-> gen + n, ssas |-> [i \in 1..n |-> gen + i]]
push_scope(ss, scope) == Append(ss, scope)
pop_scope(ss) == Front(ss)
\* a tracking frame starts above the scopes pushed so far
push_tracking(tr, ss) == Append(tr, [start |-> Len(ss), captures |-> <<>>])
\* the capture map of the innermost frame, in first-encounter order
pop_tracking(tr) == [tracking |-> Front(tr), captures_map |-> Last(tr).captures]
add_lambda_env(envs, record) == [envs |-> Append(envs, record), idx |-> Len(envs)]
\* the innermost scope that binds key (0: none does)
scope_index(ss, key) ==
    LET holding == {i \in DOMAIN ss : HasKey(ss[i], key)}
    IN  IF holding = {} THEN 0 ELSE CHOOSE i \in holding : \A j \in holding : j <= i
\* a capture is recorded once, with the next index of its frame
register(f, key, name) ==
    IF \E i \in DOMAIN f.captures : f.captures[i][1] = key THEN f
    ELSE [f EXCEPT !.captures = Append(@, <<key, <<name, Len(@)>>>>)]
\* innermost-first lookup; a variable found in a scope pushed before a
\* tracking frame is a capture of that frame, a function alias is resolved
\* through the scope stack alone
get(ss, tr, key) ==
    LET at == scope_index(ss, key)
    IN  IF at = 0 THEN [ssa |-> None, tracking |-> tr]
        ELSE [ssa |-> Some(ss[at][key]),
              tracking |-> [i \in DOMAIN tr |->
                  IF key[1] = "Variable" /\ at <= tr[i].start
                  THEN register(tr[i], key, ss[at][key]) ELSE tr[i]]]

\* the HashMap built from (key, ssa) pairs inserted in order
scope_from(keys, names) ==
    [k \in Range(keys) |->
        names[CHOOSE i \in DOMAIN keys :
                 /\ keys[i] = k
                 /\ \A j \in DOMAIN keys : keys[j] = k => j <= i]]
scope_of(vs, names) == scope_from([i \in DOMAIN vs |-> VariableKey(vs[i])], names)

\* faulty variant: the aliases of a group are bound as variables
alias_scope_as_variables(aliases, names) == scope_of(aliases, names)

\* the scope of the aliases of a BindClosures group
alias_scope(aliases, names) ==
    scope_from([i \in DOMAIN aliases |-> FunctionKey(aliases[i])], names)

\* faulty variant: every bound variable gets a fresh name of its own
let_bind_fresh(vs, val_ssa, gen) ==
    [var_ssa |-> [i \in DOMAIN vs |-> gen + i], gen |-> gen + Len(vs)]

\* the names a Let gives its variables: those of the value expression
let_bind(vs, val_ssa, gen) ==
    [var_ssa |-> [i \in DOMAIN vs |-> val_ssa[i]], gen |-> gen]

\* faulty variant: the scope of the then-variables is still open in the catch
catch_scopes_keep_then(ss, scope) == push_scope(ss, scope)

\* Try: the then scope is popped before the catch scope is pushed
catch_scopes(ss, scope) == push_scope(pop_scope(ss), scope)

\* faulty variant: the arguments are pushed before the tracking frame opens
closure_enter_scope_first(tr, ss, scope) ==
    [tracking |-> push_tracking(tr, push_scope(ss, scope)),
     scopes |-> push_scope(ss, scope)]

\* BindClosure: open the tracking frame, then push the arguments
closure_enter(tr, ss, scope) ==
    [tracking |-> push_tracking(tr, ss), scopes |-> push_scope(ss, scope)]

\* faulty variant: capture indices start at one
captures_from_one(captures_map) ==
    [i \in DOMAIN captures_map |->
        <<captures_map[i][1], captures_map[i][2][1], captures_map[i][2][2] + 1>>]

\* the capture list (key, outer ssa, index) of a capture map
captures_of(captures_map) ==
    [i \in DOMAIN captures_map |->
        <<captures_map[i][1], captures_map[i][2][1], captures_map[i][2][2]>>]
LambdaEnv(captures) == [captures |-> captures, meta_binds |-> <<>>]

\* the binds of all patterns of a clause, in order
RECURSIVE binds_of(_)
binds_of(patterns) ==
    IF patterns = <<>> THEN <<>> ELSE Head(patterns) \o binds_of(Tail(patterns))

InSSA == ssa_pc = "run" /\ stack # <<>>
frame == Last(stack)
expr == hir[frame.node]
closureVars == <<lambda_envs, lambda_env, env_ssa, is_lambda>>

\* assign_ssa_single_expression(env, child), called from the current node
recurse(child) ==
    stack' = Append([stack EXCEPT ![Len(stack)].idx = @ + 1], [node |-> child, idx |-> 0])
\* the current call returns
ssa_leave ==
    /\ stack' = Front(stack)
    /\ ssa_pc' = IF Len(stack) = 1 THEN "done" ELSE "run"
\* the current call returns with expr.ssa = name
ssa_return(name) ==
    /\ ssa' = [ssa EXCEPT ![frame.node] = name]
    /\ ssa_leave
\* the current call returns with a fresh expr.ssa
ssa_return_fresh ==
    /\ next_ssa' = new_ssa(next_ssa).gen
    /\ ssa_return(new_ssa(next_ssa).ssa)
ssa_panic ==
    /\ ssa_pc' = "panic"
    /\ UNCHANGED <<hir, ssa, var_ssa, stack, scopes, next_ssa, tracking, closureVars>>
\* the step of a handler that only walks into the next sub-expression
walk(child) ==
    /\ recurse(child)
    /\ UNCHANGED <<hir, ssa, var_ssa, scopes, next_ssa, ssa_pc, tracking, closureVars>>
    /\ UNCHANGED <<cpsVars, lexVars>>
At(kind) == InSSA /\ expr.kind = kind

SSAVariable ==
    /\ At("Variable")
    /\ LET found == get(scopes, tracking, VariableKey(expr.var))
       IN  IF found.ssa # None
           THEN /\ var_ssa' = [var_ssa EXCEPT ![frame.node] = <<found.ssa[1]>>]
                /\ ssa_return(found.ssa[1])
                /\ tracking' = found.tracking
                /\ UNCHANGED <<hir, scopes, next_ssa, closureVars>>
           ELSE ssa_panic
    /\ UNCHANGED <<cpsVars, lexVars>>

SSAAtomic ==
    /\ At("Atomic")
    /\ ssa_return_fresh
    /\ UNCHANGED <<hir, var_ssa, scopes, tracking, closureVars>>
    /\ UNCHANGED <<cpsVars, lexVars>>

SSANamedFunction ==
    /\ At("NamedFunction")
    /\ LET found == get(scopes, tracking, FunctionKey(expr.var))
       IN  IF found.ssa # None
           THEN /\ is_lambda' = [is_lambda EXCEPT ![frame.node] = TRUE]
                /\ ssa_return(found.ssa[1])
                /\ tracking' = found.tracking
                /\ UNCHANGED next_ssa
           ELSE /\ is_lambda' = [is_lambda EXCEPT ![frame.node] = FALSE]
                /\ ssa_return_fresh
                /\ UNCHANGED tracking
    /\ UNCHANGED <<hir, var_ssa, scopes, lambda_envs, lambda_env, env_ssa>>
    /\ UNCHANGED <<cpsVars, lexVars>>

LetValue ==
    /\ At("Let")
    /\ frame.idx < Len(expr.val)
    /\ walk(expr.val[frame.idx + 1])

LetBody ==
    /\ At("Let")
    /\ frame.idx = Len(expr.val)
    /\ IF Len(expr.vars) > Len(expr.val)
       THEN ssa_panic
       ELSE LET bound == let_bind(expr.vars, [i \in DOMAIN expr.val |-> ssa[expr.val[i]]],
                                  next_ssa)
            IN  /\ var_ssa' = [var_ssa EXCEPT ![frame.node] = bound.var_ssa]
                /\ next_ssa' = bound.gen
                /\ scopes' = push_scope(scopes, scope_of(expr.vars, bound.var_ssa))
                /\ recurse(expr.body)
                /\ UNCHANGED <<hir, ssa, ssa_pc, tracking, closureVars>>
    /\ UNCHANGED <<cpsVars, lexVars>>

LetReturn ==
    /\ At("Let")
    /\ frame.idx = Len(expr.val) + 1
    /\ scopes' = pop_scope(scopes)
    /\ ssa_return(ssa[expr.body])
    /\ UNCHANGED <<hir, var_ssa, next_ssa, tracking, closureVars>>
    /\ UNCHANGED <<cpsVars, lexVars>>

ApplyArg ==
    /\ At("ApplyCall")
    /\ frame.idx < Len(expr.elems)
    /\ walk(expr.elems[frame.idx + 1])

ApplyFun ==
    /\ At("ApplyCall")
    /\ frame.idx = Len(expr.elems)
    /\ walk(expr.body)

ApplyReturn ==
    /\ At("ApplyCall")
    /\ frame.idx = Len(expr.elems) + 1
    /\ ssa_return_fresh
    /\ UNCHANGED <<hir, var_ssa, scopes, tracking, closureVars>>
    /\ UNCHANGED <<cpsVars, lexVars>>

\* assert!(body.values.len() == then_vars.len())
try_assert(e) == Len(e.val) = Len(e.vars)

TryBody ==
    /\ At("Try")
    /\ frame.idx < Len(expr.val)
    /\ IF try_assert(expr)
       THEN /\ recurse(expr.val[frame.idx + 1])
            /\ UNCHANGED <<hir, ssa, var_ssa, scopes, next_ssa, ssa_pc, tracking,
                           closureVars>>
       ELSE ssa_panic
    /\ UNCHANGED <<cpsVars, lexVars>>

TryThen ==
    /\ At("Try")
    /\ frame.idx = Len(expr.val)
    /\ IF try_assert(expr)
       THEN LET names == [i \in DOMAIN expr.vars |-> ssa[expr.val[i]]]
            IN  /\ var_ssa' = [var_ssa EXCEPT ![frame.node] = names]
                /\ scopes' = push_scope(scopes, scope_of(expr.vars, names))
                /\ recurse(expr.body)
                /\ UNCHANGED <<hir, ssa, next_ssa, ssa_pc, tracking, closureVars>>
       ELSE ssa_panic
    /\ UNCHANGED <<cpsVars, lexVars>>

TryCatch ==
    /\ At("Try")
    /\ frame.idx = Len(expr.val) + 1
    /\ LET fresh == new_ssas(next_ssa, Len(expr.catch_vars))
       IN  /\ var_ssa' = [var_ssa EXCEPT ![frame.node] = @ \o fresh.ssas]
           /\ next_ssa' = fresh.gen
           /\ scopes' = catch_scopes(scopes, scope_of(expr.catch_vars, fresh.ssas))
    /\ recurse(expr.catch)
    /\ UNCHANGED <<hir, ssa, ssa_pc, tracking, closureVars>>
    /\ UNCHANGED <<cpsVars, lexVars>>

TryReturn ==
    /\ At("Try")
    /\ frame.idx = Len(expr.val) + 2
    /\ scopes' = pop_scope(scopes)
    /\ ssa_return_fresh
    /\ UNCHANGED <<hir, var_ssa, tracking, closureVars>>
    /\ UNCHANGED <<cpsVars, lexVars>>

CaseVal ==
    /\ At("Case")
    /\ frame.idx < Len(expr.val)
    /\ walk(expr.val[frame.idx + 1])

CaseValue ==
    /\ At("Case")
    /\ frame.idx >= Len(expr.val)
    /\ frame.idx < Len(expr.val) + Len(expr.elems)
    /\ walk(expr.elems[frame.idx - Len(expr.val) + 1])

CaseClause ==
    /\ At("Case")
    /\ frame.idx >= Len(expr.val) + Len(expr.elems)
    /\ frame.idx < Len(expr.val) + Len(expr.elems) + Len(expr.clauses)
    /\ walk(expr.clauses[frame.idx - Len(expr.val) - Len(expr.elems) + 1])

CaseReturn ==
    /\ At("Case")
    /\ frame.idx = Len(expr.val) + Len(expr.elems) + Len(expr.clauses)
    /\ ssa_return_fresh
    /\ UNCHANGED <<hir, var_ssa, scopes, tracking, closureVars>>
    /\ UNCHANGED <<cpsVars, lexVars>>

\* a clause: a fresh name per bind, all in one scope, then the guard
ClauseBind ==
    /\ At("Clause")
    /\ frame.idx = 0
    /\ LET binds == binds_of(expr.patterns)
           fresh == new_ssas(next_ssa, Len(binds))
       IN  /\ var_ssa' = [var_ssa EXCEPT ![frame.node] = fresh.ssas]
           /\ next_ssa' = fresh.gen
           /\ scopes' = push_scope(scopes, scope_of(binds, fresh.ssas))
    /\ recurse(expr.guard)
    /\ UNCHANGED <<hir, ssa, ssa_pc, tracking, closureVars>>
    /\ UNCHANGED <<cpsVars, lexVars>>

ClauseBody ==
    /\ At("Clause")
    /\ frame.idx = 1
    /\ walk(expr.body)

ClauseReturn ==
    /\ At("Clause")
    /\ frame.idx = 2
    /\ scopes' = pop_scope(scopes)
    /\ ssa_leave
    /\ UNCHANGED <<hir, ssa, var_ssa, next_ssa, tracking, closureVars>>
    /\ UNCHANGED <<cpsVars, lexVars>>

TupleElem ==
    /\ At("Tuple")
    /\ frame.idx < Len(expr.elems)
    /\ walk(expr.elems[frame.idx + 1])

TupleReturn ==
    /\ At("Tuple")
    /\ frame.idx = Len(expr.elems)
    /\ ssa_return_fresh
    /\ UNCHANGED <<hir, var_ssa, scopes, tracking, closureVars>>
    /\ UNCHANGED <<cpsVars, lexVars>>

DoFirst ==
    /\ At("Do")
    /\ frame.idx < Len(expr.val)
    /\ walk(expr.val[frame.idx + 1])

DoSecond ==
    /\ At("Do")
    /\ frame.idx = Len(expr.val)
    /\ walk(expr.body)

DoReturn ==
    /\ At("Do")
    /\ frame.idx = Len(expr.val) + 1
    /\ ssa_return(ssa[expr.body])
    /\ UNCHANGED <<hir, var_ssa, scopes, next_ssa, tracking, closureVars>>
    /\ UNCHANGED <<cpsVars, lexVars>>

ReceiveValue ==
    /\ At("Receive")
    /\ frame.idx < Len(expr.elems)
    /\ walk(expr.elems[frame.idx + 1])

ReceiveClause ==
    /\ At("Receive")
    /\ frame.idx >= Len(expr.elems)
    /\ frame.idx < Len(expr.elems) + Len(expr.clauses)
    /\ walk(expr.clauses[frame.idx - Len(expr.elems) + 1])

ReceiveTimeoutTime ==
    /\ At("Receive")
    /\ frame.idx = Len(expr.elems) + Len(expr.clauses)
    /\ walk(expr.timeout_time)

ReceiveTimeoutBody ==
    /\ At("Receive")
    /\ frame.idx = Len(expr.elems) + Len(expr.clauses) + 1
    /\ walk(expr.timeout_body)

ReceiveReturn ==
    /\ At("Receive")
    /\ frame.idx = Len(expr.elems) + Len(expr.clauses) + 2
    /\ ssa_return_fresh
    /\ UNCHANGED <<hir, var_ssa, scopes, tracking, closureVars>>
    /\ UNCHANGED <<cpsVars, lexVars>>

ClosureEnter ==
    /\ At("BindClosure")
    /\ frame.idx = 0
    /\ LET fresh == new_ssas(next_ssa, Len(expr.vars))
           entered == closure_enter(tracking, scopes, scope_of(expr.vars, fresh.ssas))
       IN  /\ var_ssa' = [var_ssa EXCEPT ![frame.node] = fresh.ssas]
           /\ next_ssa' = fresh.gen
           /\ tracking' = entered.tracking
           /\ scopes' = entered.scopes
    /\ recurse(expr.body)
    /\ UNCHANGED <<hir, ssa, ssa_pc, closureVars>>
    /\ UNCHANGED <<cpsVars, lexVars>>

ClosureReturn ==
    /\ At("BindClosure")
    /\ frame.idx = 1
    /\ scopes' = pop_scope(scopes)
    /\ LET popped == pop_tracking(tracking)
           added == add_lambda_env(lambda_envs, LambdaEnv(captures_of(popped.captures_map)))
           fresh == new_ssas(next_ssa, 2)
       IN  /\ tracking' = popped.tracking
           /\ lambda_envs' = added.envs
           /\ lambda_env' = [lambda_env EXCEPT ![frame.node] = Some(added.idx)]
           /\ env_ssa' = [env_ssa EXCEPT ![frame.node] = fresh.ssas[1]]
           /\ next_ssa' = fresh.gen
           /\ ssa_return(fresh.ssas[2])
    /\ UNCHANGED <<hir, var_ssa, is_lambda>>
    /\ UNCHANGED <<cpsVars, lexVars>>

\* BindClosures: the aliases, their scope, then the shared tracking frame
ClosuresEnter ==
    /\ At("BindClosures")
    /\ frame.idx = 0
    /\ LET aliases == [i \in DOMAIN expr.closures |-> hir[expr.closures[i]].var]
           fresh == new_ssas(next_ssa, Len(aliases))
           pushed == push_scope(scopes, alias_scope(aliases, fresh.ssas))
       IN  /\ var_ssa' = [var_ssa EXCEPT ![frame.node] = fresh.ssas]
           /\ next_ssa' = fresh.gen
           /\ scopes' = pushed
           /\ tracking' = push_tracking(tracking, pushed)
    /\ stack' = [stack EXCEPT ![Len(stack)].idx = 1]
    /\ UNCHANGED <<hir, ssa, ssa_pc, closureVars>>
    /\ UNCHANGED <<cpsVars, lexVars>>

ClosuresNext ==
    /\ At("BindClosures")
    /\ frame.idx >= 1
    /\ frame.idx <= Len(expr.closures)
    /\ walk(expr.closures[frame.idx])

ClosuresBody ==
    /\ At("BindClosures")
    /\ frame.idx = Len(expr.closures) + 1
    /\ LET popped == pop_tracking(tracking)
           added == add_lambda_env(lambda_envs, LambdaEnv(captures_of(popped.captures_map)))
       IN  /\ tracking' = popped.tracking
           /\ lambda_envs' = added.envs
           /\ lambda_env' = [n \in DOMAIN lambda_env |->
                  IF n = frame.node \/ n \in Range(expr.closures)
                  THEN Some(added.idx) ELSE lambda_env[n]]
    /\ recurse(expr.body)
    /\ UNCHANGED <<hir, ssa, var_ssa, scopes, next_ssa, ssa_pc, env_ssa, is_lambda>>
    /\ UNCHANGED <<cpsVars, lexVars>>

ClosuresReturn ==
    /\ At("BindClosures")
    /\ frame.idx = Len(expr.closures) + 2
    /\ scopes' = pop_scope(scopes)
    /\ LET fresh == new_ssas(next_ssa, 2)
       IN  /\ env_ssa' = [env_ssa EXCEPT ![frame.node] = fresh.ssas[1]]
           /\ next_ssa' = fresh.gen
           /\ ssa_return(fresh.ssas[2])
    /\ UNCHANGED <<hir, var_ssa, tracking, lambda_envs, lambda_env, is_lambda>>
    /\ UNCHANGED <<cpsVars, lexVars>>

\* a closure of the group: its arguments, then its body
FunEnter ==
    /\ At("Closure")
    /\ frame.idx = 0
    /\ LET fresh == new_ssas(next_ssa, Len(expr.vars))
       IN  /\ var_ssa' = [var_ssa EXCEPT ![frame.node] = fresh.ssas]
           /\ next_ssa' = fresh.gen
           /\ scopes' = push_scope(scopes, scope_of(expr.vars, fresh.ssas))
    /\ recurse(expr.body)
    /\ UNCHANGED <<hir, ssa, ssa_pc, tracking, closureVars>>
    /\ UNCHANGED <<cpsVars, lexVars>>

FunReturn ==
    /\ At("Closure")
    /\ frame.idx = 1
    /\ scopes' = pop_scope(scopes)
    /\ ssa_leave
    /\ UNCHANGED <<hir, ssa, var_ssa, next_ssa, tracking, closureVars>>
    /\ UNCHANGED <<cpsVars, lexVars>>

\* the pass is called on the root with empty SSA fields and a fresh tracker
InitSSA ==
    /\ hir \in HirTrees
    /\ ssa = [n \in DOMAIN hir |-> 0]
    /\ var_ssa = [n \in DOMAIN hir |-> <<>>]
    /\ stack = <<[node |-> 1, idx |-> 0]>>
    /\ scopes = <<>>
    /\ next_ssa = 0
    /\ ssa_pc = "run"
    /\ tracking = <<>>
    /\ lambda_envs = <<>>
    /\ lambda_env = [n \in DOMAIN hir |-> None]
    /\ env_ssa = [n \in DOMAIN hir |-> 0]
    /\ is_lambda = [n \in DOMAIN hir |-> FALSE]
    /\ scanner = None
    /\ token = None
    /\ token_start = 0
    /\ token_end = 0
    /\ eof = FALSE
    /\ str_buf = <<>>
    /\ stream = <<>>
    /\ lex_pc = "idle"
    /\ pc = "idle"
    /\ panic = None
    /\ module = None
    /\ fun_idents = <<>>
    /\ funs = Empty
    /\ env_gen = <<>>
    /\ result = None
    /\ src_fun = None
    /\ live = None
    /\ cont_sites = {}
    /\ needed = <<>>
    /\ needed_map = Empty
    /\ generated = {}
    /\ generated2 = {}
    /\ site = None
    /\ cont = None
    /\ b = None
    /\ to_process = <<>>
    /\ val_map = Empty
    /\ ebb_map = Empty
    /\ handled_ops = {}
    /\ ok_ret_cont = 0
    /\ err_ret_cont = 0
    /\ env_vals = <<>>

NextSSA ==
    \/ SSAVariable
    \/ SSAAtomic
    \/ SSANamedFunction
    \/ LetValue
    \/ LetBody
    \/ LetReturn
    \/ ApplyArg
    \/ ApplyFun
    \/ ApplyReturn
    \/ TryBody
    \/ TryThen
    \/ TryCatch
    \/ TryReturn
    \/ CaseVal
    \/ CaseValue
    \/ CaseClause
    \/ CaseReturn
    \/ ClauseBind
    \/ ClauseBody
    \/ ClauseReturn
    \/ TupleElem
    \/ TupleReturn
    \/ DoFirst
    \/ DoSecond
    \/ DoReturn
    \/ ReceiveValue
    \/ ReceiveClause
    \/ ReceiveTimeoutTime
    \/ ReceiveTimeoutBody
    \/ ReceiveReturn
    \/ ClosureEnter
    \/ ClosureReturn
    \/ ClosuresEnter
    \/ ClosuresNext
    \/ ClosuresBody
    \/ ClosuresReturn
    \/ FunEnter
    \/ FunReturn

SpecSSA == InitSSA /\ [][NextSSA]_vars

(***************************************************************************)
(* C10: scenario S1 as the spec states it.  On Let x = 1 in Let y = x in y *)
(* the pass hands out three fresh names; the outer value and x are n1, the *)
(* inner value is n1, y is n2, the reference to y is n2, the result is n2. *)
(***************************************************************************)
S1Done == ssa_pc = "done" /\ hir = LetLetTree
C10_AsStated ==
    S1Done =>
        /\ next_ssa = 3
        /\ ssa[2] = 1
        /\ var_ssa[1] = <<1>>
        /\ ssa[4] = 1
        /\ var_ssa[3] = <<2>>
        /\ ssa[5] = 2
        /\ ssa[1] = 2
\* C10, amended: on Let x = 1 in Let y = x in y the pass hands out one fresh
\* name n1, for the literal; x, the inner value, y, the reference to y and
\* the results of both Lets all carry n1.
C10_LetReusesValueName ==
    S1Done =>
        /\ next_ssa = 1
        /\ ssa[2] = 1
        /\ var_ssa[1] = <<1>>
        /\ ssa[4] = 1
        /\ var_ssa[4] = <<1>>
        /\ var_ssa[3] = <<1>>
        /\ ssa[5] = 1
        /\ var_ssa[5] = <<1>>
        /\ ssa[3] = 1
        /\ ssa[1] = 1
\* the pass has finished on the scenario's tree, every node named
C10_Witness ==
    /\ S1Done
    /\ scopes = <<>>
    /\ \A n \in DOMAIN hir : ssa[n] # 0

(***************************************************************************)
(* The tree as the claims about the SSA pass read it: the sub-expressions  *)
(* of a node in the order the pass walks them, and the binding of a name   *)
(* that encloses a node.                                                   *)
(***************************************************************************)
Children(nd) ==
    CASE nd.kind \in {"Let", "Do"} -> nd.val \o <<nd.body>>
      [] nd.kind = "Try" -> nd.val \o <<nd.body, nd.catch>>
      [] nd.kind = "Case" -> nd.val \o nd.elems \o nd.clauses
      [] nd.kind = "Clause" -> <<nd.guard, nd.body>>
      [] nd.kind = "Receive" -> nd.elems \o nd.clauses \o <<nd.timeout_time, nd.timeout_body>>
      [] nd.kind = "ApplyCall" -> nd.elems \o <<nd.body>>
      [] nd.kind = "Tuple" -> nd.elems
      [] nd.kind \in {"BindClosure", "Closure"} -> <<nd.body>>
      [] nd.kind = "BindClosures" -> nd.closures \o <<nd.body>>
      [] OTHER -> <<>>
Parent(c) ==
    IF \E p \in DOMAIN hir : c \in Range(Children(hir[p]))
    THEN CHOOSE p \in DOMAIN hir : c \in Range(Children(hir[p]))
    ELSE 0
\* the names node p binds around its sub-expression c, and where their SSA
\* names start in var_ssa[p]
BoundNames(p, c) ==
    CASE hir[p].kind = "Let" /\ c = hir[p].body -> hir[p].vars
      [] hir[p].kind = "Try" /\ c = hir[p].body -> hir[p].vars
      [] hir[p].kind = "Try" /\ c = hir[p].catch -> hir[p].catch_vars
      [] hir[p].kind = "Clause" -> binds_of(hir[p].patterns)
      [] hir[p].kind \in {"BindClosure", "Closure"} -> hir[p].vars
      [] OTHER -> <<>>
BoundOffset(p, c) ==
    IF hir[p].kind = "Try" /\ c = hir[p].catch THEN Len(hir[p].vars) ELSE 0
\* the innermost binding of variable x enclosing node c: <<>> or
\* <<binding node, position in its var_ssa>>
RECURSIVE Binding(_, _)
BindingFrom(p, c, x) ==
    IF p = 0 THEN None
    ELSE LET names == BoundNames(p, c)
             hits == {i \in DOMAIN names : names[i] = x}
         IN  IF hits # {}
             THEN Some(<<p, BoundOffset(p, c) + CHOOSE i \in hits : \A j \in hits : j <= i>>)
             ELSE Binding(p, x)
Binding(c, x) == CHOOSE r \in {BindingFrom(p, c, x) : p \in {Parent(c)}} : TRUE
BindingName(c, x) == var_ssa[Binding(c, x)[1][1]][Binding(c, x)[1][2]]
VariableNodes == {n \in DOMAIN hir : hir[n].kind = "Variable"}

(***************************************************************************)
(* C11: a variable reference gets the SSA name of the innermost binding of *)
(* its name that encloses it (Let body, Try then / catch, clause, closure  *)
(* arguments), never that of a sibling or of a binding inside its own      *)
(* expression; a reference with no enclosing binding aborts the pass.      *)
(***************************************************************************)
C11_Resolve ==
    At("Variable") =>
        IF Binding(frame.node, expr.var) = None
        THEN ssa_pc' = "panic"
        ELSE /\ ssa_pc' # "panic"
             /\ ssa'[frame.node] = BindingName(frame.node, expr.var)
C11_Resolved ==
    /\ \A n \in VariableNodes :
           ssa[n] # 0 => /\ Binding(n, hir[n].var) # None
                         /\ ssa[n] = BindingName(n, hir[n].var)
                         /\ var_ssa[n] = <<ssa[n]>>
    /\ ssa_pc = "done" => \A n \in VariableNodes : ssa[n] # 0
C11_ScopeCorrect == [][C11_Resolve /\ C11_Resolved']_vars
\* the pass has finished on a tree with a Try where one name has two
\* bindings, each referred to
C11_Witness ==
    /\ ssa_pc = "done"
    /\ \E t \in DOMAIN hir : hir[t].kind = "Try"
    /\ \E n, m \in VariableNodes :
           /\ hir[n].var = hir[m].var
           /\ ssa[n] # ssa[m]
           /\ Binding(n, hir[n].var) # Binding(m, hir[m].var)

\* the nodes under n (n included) in the order the pass reaches them
RECURSIVE Walk(_), WalkAll(_)
Walk(n) == <<n>> \o WalkAll(Children(hir[n]))
WalkAll(ns) ==
    IF ns = <<>> THEN <<>>
    ELSE CHOOSE r \in {Walk(h) \o WalkAll(t) : h \in {Head(ns)}, t \in {Tail(ns)}} : TRUE
\* the elements of s without those an earlier element equals under f
FirstBy(s, f(_)) ==
    LET keep == {i \in DOMAIN s : \A j \in 1..(i - 1) : f(s[j]) # f(s[i])}
        nth[k \in 0..Len(s)] ==
            IF k = 0 THEN <<>>
            ELSE IF k \in keep THEN Append(nth[k - 1], s[k]) ELSE nth[k - 1]
    IN  nth[Len(s)]
\* the variable references in the bodies ns that resolve to a binding made
\* outside the nodes under root, one per name, in the order the pass meets them
OuterRefs(root, ns) ==
    LET inside == Range(Walk(root))
        refs == SelectSeq(WalkAll(ns),
                    LAMBDA n : /\ hir[n].kind = "Variable"
                               /\ Binding(n, hir[n].var) # None
                               /\ Binding(n, hir[n].var)[1][1] \notin inside)
        NameOf(n) == hir[n].var
    IN  FirstBy(refs, NameOf)
ExpectedCaptures(refs) ==
    [i \in DOMAIN refs |->
        <<VariableKey(hir[refs[i]].var), BindingName(refs[i], hir[refs[i]].var), i - 1>>]
CapturesOf(c) == lambda_envs[lambda_env[c][1] + 1].captures
ClosureNodes == {c \in DOMAIN hir : hir[c].kind = "BindClosure"}

RECURSIVE AliasBinding(_, _)
AliasBindingFrom(p, x) ==
    IF p = 0 THEN None
    ELSE LET cs == IF hir[p].kind = "BindClosures" THEN hir[p].closures ELSE <<>>
             hits == {i \in DOMAIN cs : hir[cs[i]].var = x}
         IN  IF hits # {}
             THEN Some(<<p, CHOOSE i \in hits : \A j \in hits : j <= i>>)
             ELSE AliasBinding(p, x)
AliasBinding(c, x) == CHOOSE r \in {AliasBindingFrom(p, x) : p \in {Parent(c)}} : TRUE
GroupNodes == {g \in DOMAIN hir : hir[g].kind = "BindClosures"}
\* the references by name to an alias of group g inside the closure bodies of g
AliasRefs(g) ==
    {n \in Range(WalkAll(hir[g].closures)) :
        /\ hir[n].kind = "NamedFunction"
        /\ AliasBinding(n, hir[n].var) # None
        /\ AliasBinding(n, hir[n].var)[1][1] = g}

DenseCaptures(caps) ==
    /\ \A i \in DOMAIN caps : caps[i][3] = i - 1
    /\ \A i, j \in DOMAIN caps : caps[i][1] = caps[j][1] => i = j
\* no outer SSA name is twice in a capture list
DistinctOuterNames(caps) ==
    \A i, j \in DOMAIN caps : caps[i][2] = caps[j][2] => i = j
\* a frame that stays open keeps every capture it has, index included
CapturesKept ==
    \A i \in DOMAIN tracking :
        (i \in DOMAIN tracking' /\ tracking'[i].start = tracking[i].start) =>
            /\ Len(tracking'[i].captures) >= Len(tracking[i].captures)
            /\ \A k \in DOMAIN tracking[i].captures :
                   tracking'[i].captures[k] = tracking[i].captures[k]
DenseEnvs ==
    /\ \A e \in DOMAIN lambda_envs : DenseCaptures(lambda_envs[e].captures)
    /\ \A i \in DOMAIN tracking :
           LET m == tracking[i].captures
           IN  /\ \A k \in DOMAIN m : m[k][2][2] = k - 1
               /\ \A k, l \in DOMAIN m : m[k][1] = m[l][1] => k = l

(***************************************************************************)
(* C19 as stated: the capture indices of every lambda env are 0..n-1 and   *)
(* each distinct outer SSA name is in the list once.                       *)
(***************************************************************************)
C19_AsStated ==
    \A e \in DOMAIN lambda_envs :
        /\ DenseCaptures(lambda_envs[e].captures)
        /\ DistinctOuterNames(lambda_envs[e].captures)

(***************************************************************************)
(* C19: in every lambda env, and in every open tracking frame, the capture *)
(* indices are 0..n-1 without gap or repeat and each captured source name  *)
(* (scope key) is in the list once; a lookup of a name captured before     *)
(* leaves its entry and index as they were.  Two source names bound to one *)
(* SSA name are two captures.                                              *)
(***************************************************************************)
C19_DenseIndices == [][DenseEnvs' /\ CapturesKept]_vars
\* the pass has finished on a closure that refers twice to one outer
\* variable and captures a second one
C19_Witness ==
    /\ ssa_pc = "done"
    /\ \E c \in ClosureNodes :
           /\ Len(CapturesOf(c)) = 2
           /\ \E n, m \in Range(Walk(hir[c].body)) :
                  /\ n # m
                  /\ hir[n].kind = "Variable" /\ hir[m].kind = "Variable"
                  /\ hir[n].var = hir[m].var
                  /\ VariableKey(hir[n].var) = CapturesOf(c)[1][1]

(***************************************************************************)
(* The lexer of the listing parser (token.rs).  A character is a string of *)
(* one character; two names stand for characters a TLA+ string cannot      *)
(* hold.  A SourceIndex is a byte offset.                                  *)
(***************************************************************************)
\* '\0', what the Scanner reads at and after the end of the source
NUL == "NUL"
\* a letter outside ASCII (U+00E9), two bytes long
EAcute == "e-acute"
Lowercase ==
    {"a", "b", "c", "d", "e", "f", "g", "h", "i", "j", "k", "l", "m",
     "n", "o", "p", "q", "r", "s", "t", "u", "v", "w", "x", "y", "z"}
Uppercase ==
    {"A", "B", "C", "D", "E", "F", "G", "H", "I", "J", "K", "L", "M",
     "N", "O", "P", "Q", "R", "S", "T", "U", "V", "W", "X", "Y", "Z"}
DigitChars == <<"0", "1", "2", "3", "4", "5", "6", "7", "8", "9">>
is_whitespace(c) == c \in {" ", "\t", "\n"}
is_digit(c) == c \in Range(DigitChars)
is_ascii_lowercase(c) == c \in Lowercase
is_alphanumeric(c) == c \in Lowercase \cup Uppercase \cup Range(DigitChars) \cup {EAcute}
from_char_len(c) == IF c = EAcute THEN 2 ELSE 1

\* ---- Scanner ----
Scanner(source) == [source |-> source, pos |-> 1]
\* the byte offset of the i-th character of the source
RECURSIVE source_index(_, _)
source_index(source, i) ==
    IF i <= 1 THEN 0
    ELSE source_index(source, i - 1)
         + (IF i - 1 \in DOMAIN source THEN from_char_len(source[i - 1]) ELSE 0)
scanner_at(sc, i) ==
    [pos |-> source_index(sc.source, i),
     c |-> IF i \in DOMAIN sc.source THEN sc.source[i] ELSE NUL]
scanner_read(sc) == scanner_at(sc, sc.pos)
scanner_peek(sc) == scanner_at(sc, sc.pos + 1)
scanner_advance(sc) == [sc EXCEPT !.pos = IF @ <= Len(sc.source) THEN @ + 1 ELSE @]
\* the characters of the source in the byte range [start, end)
scanner_slice(sc, start, end) ==
    LET at(i) == source_index(sc.source, i)
        ids == {i \in DOMAIN sc.source : start <= at(i) /\ at(i) < end}
        nth[k \in 0..Len(sc.source)] ==
            IF k = 0 THEN <<>>
            ELSE IF k \in ids THEN Append(nth[k - 1], sc.source[k]) ELSE nth[k - 1]
    IN  nth[Len(sc.source)]

\* ---- Token ----
Token(kind, value) == [kind |-> kind, value |-> value]
EOF == Token("EOF", <<>>)
Comma == Token("Comma", <<>>)
Dot == Token("Dot", <<>>)
Pipe == Token("Pipe", <<>>)
SquareOpen == Token("SquareOpen", <<>>)
SquareClose == Token("SquareClose", <<>>)
CurlyOpen == Token("CurlyOpen", <<>>)
CurlyClose == Token("CurlyClose", <<>>)
\* Symbol::intern keeps the text
Atom(text) == Token("Atom", text)
String(text) == Token("String", text)
Integer(i) == Token("Integer", i)
Float(f) == Token("Float", f)

\* ---- conversions ----
digit_value(c) == (CHOOSE i \in DOMAIN DigitChars : DigitChars[i] = c) - 1
\* Integer::from_string_radix(text, 10) of a text of digits
RECURSIVE from_string_radix(_)
from_string_radix(text) ==
    IF text = <<>> THEN 0
    ELSE 10 * from_string_radix(Front(text)) + digit_value(Last(text))
\* the value m / 10^e as the pair <<m, e>> with the least e
RECURSIVE decimal(_, _)
decimal(m, e) == IF e > 0 /\ m % 10 = 0 THEN decimal(m \div 10, e - 1) ELSE <<m, e>>
\* f64::from_str of digits "." digits
f64_from_str(text) ==
    LET dot == CHOOSE i \in DOMAIN text : text[i] = "."
        digits == SubSeq(text, 1, dot - 1) \o SubSeq(text, dot + 1, Len(text))
    IN  decimal(from_string_radix(digits), Len(text) - dot)

\* ---- Lexer ----
\* the lexer: its fields, and how the call in progress ends: "ok", a panic
\* ("unimplemented", "debug_assert"), or "hang" for a loop that never ends
Lexer(sc) ==
    [scanner |-> sc, token |-> EOF, token_start |-> 0, token_end |-> 0,
     eof |-> FALSE, str_buf |-> <<>>, out |-> "ok"]
read(lx) == scanner_read(lx.scanner).c
peek(lx) == scanner_peek(lx.scanner).c
pop(lx) ==
    [lx EXCEPT !.scanner = scanner_advance(@),
               !.token_end = scanner_read(lx.scanner).pos + from_char_len(read(lx))]
skip(lx) == pop(lx)
slice(lx) == scanner_slice(lx.scanner, lx.token_start, lx.token_end)
unimplemented(lx) == [lx EXCEPT !.out = "unimplemented"]

RECURSIVE advance_start(_)
advance_start(lx) ==
    IF read(lx) = NUL THEN [lx EXCEPT !.eof = TRUE]
    ELSE IF is_whitespace(read(lx))
         THEN CHOOSE r \in {advance_start(n) :
                             n \in {[lx EXCEPT !.scanner = scanner_advance(@)]}} : TRUE
         ELSE [lx EXCEPT !.token_start = scanner_read(lx.scanner).pos]

RECURSIVE skip_whitespace(_)
skip_whitespace(lx) ==
    IF is_whitespace(read(lx))
    THEN CHOOSE r \in {skip_whitespace(n) : n \in {skip(lx)}} : TRUE
    ELSE lx

\* the characters the loop of lex_unquoted_atom skips
atom_continues(c) == c \in {"_", "@"} \/ is_digit(c) \/ is_alphanumeric(c)

RECURSIVE atom_rest(_)
atom_rest(lx) ==
    IF atom_continues(read(lx))
    THEN CHOOSE r \in {atom_rest(n) : n \in {skip(lx)}} : TRUE
    ELSE lx
\* debug_assertions: whether the build checks debug_assert!
lex_unquoted_atom(lx, debug_assertions) ==
    IF debug_assertions /\ ~is_ascii_lowercase(read(lx))
    THEN [pop(lx) EXCEPT !.out = "debug_assert"]
    ELSE CHOOSE r \in {[n EXCEPT !.token = Atom(slice(n))] : n \in {atom_rest(pop(lx))}} : TRUE

\* the loop of lex_quoted_atom and lex_string up to the closing quote
RECURSIVE quoted_rest(_, _)
quoted_rest(lx, quote) ==
    CASE read(lx) = "\\" -> unimplemented(lx)
      [] read(lx) = quote -> skip(lx)
      [] read(lx) = NUL -> [lx EXCEPT !.out = "hang"]
      [] OTHER ->
           CHOOSE r \in {quoted_rest(n, quote) :
                          n \in {[skip(lx) EXCEPT !.str_buf = Append(@, read(lx))]}} : TRUE
lex_quoted_atom(lx) ==
    CHOOSE r \in {IF n.out = "ok" THEN [n EXCEPT !.token = Atom(n.str_buf)] ELSE n :
                   n \in {quoted_rest([pop(lx) EXCEPT !.str_buf = <<>>], "'")}} : TRUE
lex_string(lx) ==
    CHOOSE r \in {IF n.out = "ok" THEN [n EXCEPT !.token = String(n.str_buf)] ELSE n :
                   n \in {quoted_rest([pop(lx) EXCEPT !.str_buf = <<>>], "\"")}} : TRUE

RECURSIVE digits_rest(_)
digits_rest(lx) ==
    IF is_digit(read(lx))
    THEN CHOOSE r \in {digits_rest(n) : n \in {skip(lx)}} : TRUE
    ELSE lx
lex_float(lx) ==
    CHOOSE r \in {[n EXCEPT !.token = Float(f64_from_str(slice(n)))] :
                   n \in {digits_rest(pop(lx))}} : TRUE
lex_number(lx) ==
    CHOOSE r \in {IF read(n) = "." /\ is_digit(peek(n))
                  THEN lex_float(skip(n))
                  ELSE [n EXCEPT !.token = Integer(from_string_radix(slice(n)))] :
                   n \in {digits_rest(pop(lx))}} : TRUE

tokenize(lx, debug_assertions) ==
    IF read(lx) = NUL THEN [lx EXCEPT !.eof = TRUE, !.token = EOF]
    ELSE CHOOSE r \in {
           CASE read(n) = "{" -> [skip(n) EXCEPT !.token = CurlyOpen]
             [] read(n) = "}" -> [skip(n) EXCEPT !.token = CurlyClose]
             [] read(n) = "[" -> [skip(n) EXCEPT !.token = SquareOpen]
             [] read(n) = "]" -> [skip(n) EXCEPT !.token = SquareClose]
             [] read(n) = "," -> [skip(n) EXCEPT !.token = Comma]
             [] read(n) = "." -> [skip(n) EXCEPT !.token = Dot]
             [] read(n) = "|" -> [skip(n) EXCEPT !.token = Pipe]
             [] read(n) \in Lowercase \cup Uppercase -> lex_unquoted_atom(n, debug_assertions)
             [] is_digit(read(n)) -> lex_number(n)
             [] read(n) = "'" -> lex_quoted_atom(n)
             [] read(n) = "\"" -> lex_string(n)
             [] OTHER -> unimplemented(n) :
           n \in {IF is_whitespace(read(lx)) THEN skip_whitespace(lx) ELSE lx}} : TRUE
advance(lx, debug_assertions) ==
    CHOOSE r \in {tokenize(n, debug_assertions) : n \in {advance_start(lx)}} : TRUE

\* ---- the iterator ----
MaxLen == 3
\* { foo, 'bar baz', "hi", 12, 3.5 }
S6Input ==
    <<"{", " ", "f", "o", "o", ",", " ", "'", "b", "a", "r", " ", "b", "a", "z", "'",
      ",", " ", "\"", "h", "i", "\"", ",", " ", "1", "2", ",", " ", "3", ".", "5",
      " ", "}">>
Alphabet == {"a", "Z", "7", ".", " ", "}", "'", "\"", "\\", "_", EAcute, "#"}
Sources == {S6Input} \cup UNION {[1..n -> Alphabet] : n \in 0..MaxLen}

Self ==
    [scanner |-> scanner, token |-> token, token_start |-> token_start,
     token_end |-> token_end, eof |-> eof, str_buf |-> str_buf, out |-> "ok"]
Store(lx) ==
    /\ scanner' = lx.scanner
    /\ token' = lx.token
    /\ token_start' = lx.token_start
    /\ token_end' = lx.token_end
    /\ eof' = lx.eof
    /\ str_buf' = lx.str_buf
Ok(start, tok, end) == [ok |-> TRUE, start |-> start, token |-> tok, end |-> end]

\* faulty variant: the iterator never ends
end_of_stream_never(lx) == FALSE

\* lex(): the iterator ends
end_of_stream(lx) == lx.eof /\ lx.token = EOF

\* Lexer::new: the fields, then the first token is read ahead
LexerNew ==
    /\ lex_pc = "new"
    /\ \E debug_assertions \in BOOLEAN :
           LET lx == advance(Lexer(scanner), debug_assertions)
           IN  /\ Store(lx)
               /\ lex_pc' = IF lx.out = "ok" THEN "ready" ELSE lx.out
    /\ UNCHANGED stream
    /\ UNCHANGED <<cpsVars, ssaVars>>

\* next(): the token read ahead is yielded and the next one is read
LexYield ==
    /\ lex_pc = "ready"
    /\ ~end_of_stream(Self)
    /\ \E debug_assertions \in BOOLEAN :
           LET lx == advance([Self EXCEPT !.token = EOF], debug_assertions)
           IN  /\ Store(lx)
               /\ lex_pc' = IF lx.out = "ok" THEN "ready" ELSE lx.out
               /\ stream' = IF lx.out = "ok"
                            THEN Append(stream, Ok(token_start, token, token_end))
                            ELSE stream
    /\ UNCHANGED <<cpsVars, ssaVars>>

\* next(): None
LexEnd ==
    /\ lex_pc = "ready"
    /\ end_of_stream(Self)
    /\ lex_pc' = "end"
    /\ UNCHANGED <<scanner, token, token_start, token_end, eof, str_buf, stream>>
    /\ UNCHANGED <<cpsVars, ssaVars>>

InitLex ==
    /\ scanner \in {Scanner(source) : source \in Sources}
    /\ token = None
    /\ token_start = 0
    /\ token_end = 0
    /\ eof = FALSE
    /\ str_buf = <<>>
    /\ stream = <<>>
    /\ lex_pc = "new"
    /\ hir = <<>>
    /\ ssa = <<>>
    /\ var_ssa = <<>>
    /\ stack = <<>>
    /\ scopes = <<>>
    /\ next_ssa = 0
    /\ ssa_pc = "idle"
    /\ tracking = <<>>
    /\ lambda_envs = <<>>
    /\ lambda_env = <<>>
    /\ env_ssa = <<>>
    /\ is_lambda = <<>>
    /\ pc = "idle"
    /\ panic = None
    /\ module = None
    /\ fun_idents = <<>>
    /\ funs = Empty
    /\ env_gen = <<>>
    /\ result = None
    /\ src_fun = None
    /\ live = None
    /\ cont_sites = {}
    /\ needed = <<>>
    /\ needed_map = Empty
    /\ generated = {}
    /\ generated2 = {}
    /\ site = None
    /\ cont = None
    /\ b = None
    /\ to_process = <<>>
    /\ val_map = Empty
    /\ ebb_map = Empty
    /\ handled_ops = {}
    /\ ok_ret_cont = 0
    /\ err_ret_cont = 0
    /\ env_vals = <<>>

NextLex ==
    \/ LexerNew
    \/ LexYield
    \/ LexEnd

SpecLex == InitLex /\ [][NextLex]_vars

\* the tokens of a stream are those of the list ts
SameTokens(items, ts) ==
    /\ Len(items) = Len(ts)
    /\ \A i \in DOMAIN items :
           /\ items[i].token.kind = ts[i].kind
           /\ items[i].token.value = ts[i].value
S6Tokens ==
    <<CurlyOpen, Atom(<<"f", "o", "o">>), Comma,
      Atom(<<"b", "a", "r", " ", "b", "a", "z">>), Comma, String(<<"h", "i">>), Comma,
      Integer(12), Comma, Float(<<35, 1>>), CurlyClose>>
OnS6 == lex_pc # "idle" /\ scanner.source = S6Input

(***************************************************************************)
(* C14 as stated: on the input of scenario S6 the items are the eleven     *)
(* tokens and then an EOF token, and whenever the stream ends its last     *)
(* item is an EOF token.                                                   *)
(***************************************************************************)
C14_AsStated ==
    lex_pc = "end" =>
        /\ stream # <<>>
        /\ Last(stream).token.kind = "EOF"
        /\ OnS6 => SameTokens(stream, Append(S6Tokens, EOF))

(***************************************************************************)
(* C14: on the input of scenario S6 the lexer yields CurlyOpen,            *)
(* Atom("foo"), Comma, Atom("bar baz"), Comma, String("hi"), Comma,        *)
(* Integer(12), Comma, Float(3.5), CurlyClose and then the stream ends.    *)
(* No item is ever an EOF token: EOF is only the token read ahead at the   *)
(* end of the source, and the stream ends when it is read ahead.           *)
(***************************************************************************)
C14_S6Tokens ==
    /\ \A i \in DOMAIN stream : stream[i].ok /\ stream[i].token.kind # "EOF"
    /\ lex_pc = "end" => eof /\ token = EOF
    /\ OnS6 =>
           /\ lex_pc \in {"new", "ready", "end"}
           /\ Len(stream) <= Len(S6Tokens)
           /\ SameTokens(stream, SubSeq(S6Tokens, 1, Len(stream)))
           /\ lex_pc = "end" => Len(stream) = Len(S6Tokens)
\* the stream of scenario S6 has ended after its eleven tokens
C14_Witness == OnS6 /\ lex_pc = "end" /\ Len(stream) = 11

\* the character of the source at a byte offset
CharAt(i) ==
    LET at == {k \in DOMAIN scanner.source : source_index(scanner.source, k) = i}
    IN  IF at = {} THEN NUL ELSE scanner.source[CHOOSE k \in at : TRUE]
\* the items that are atoms not written in quotes
UnquotedAtoms ==
    {i \in DOMAIN stream : stream[i].token.kind = "Atom" /\ CharAt(stream[i].start) # "'"}

(***************************************************************************)
(* C15: an unquoted atom is yielded only for a lexeme [a-z][A-Za-z0-9_@]*: *)
(* its first character is a lowercase ASCII letter, the others are ASCII   *)
(* letters, digits, '_' or '@'.                                            *)
(***************************************************************************)
C15_UnquotedAtom ==
    \A i \in UnquotedAtoms :
        LET text == scanner_slice(scanner, stream[i].start, stream[i].end)
        IN  /\ text # <<>>
            /\ text[1] \in Lowercase
            /\ \A k \in 2..Len(text) :
                   text[k] \in Lowercase \cup Uppercase \cup Range(DigitChars) \cup {"_", "@"}

(***************************************************************************)
(* C16: a backslash in a quoted atom or string, or a character no token    *)
(* starts with, is reported as an error item of the stream; the lexer does *)
(* not abort.                                                              *)
(***************************************************************************)
C16_LexError == lex_pc # "unimplemented"

(***************************************************************************)
(* C17: the chunk of a throw continuation (site EbbCall(call, r), target   *)
(* T) is generated without a panic; every value live at T's entry that     *)
(* receives the call's error value is bound to the chunk's result          *)
(* argument, and every other one to a value unpacked from an env slot that *)
(* the env of the site holds.                                              *)
(***************************************************************************)
InErrChunk == cont # None /\ site # None /\ ~IsSiteOp(site)
C17_ErrContinuation ==
    /\ InErrChunk => pc # "panic"
    /\ (InErrChunk /\ pc = "chunk") =>
           LET nok == op_writes(src_fun, ebb_call_source(src_fun, site[2]))[2]
               at_entry == Range(site_live(src_fun, live, site))
               receivers == {v \in at_entry : renamed(src_fun, site[2], v) = nok}
               entry == b.fun.ebbs[1]
               unpacked == entry.ops[1].writes
           IN  /\ \A v \in receivers :
                      HasKey(val_map, v) /\ val_map[v] = entry.args[2]
               /\ \A v \in at_entry \ receivers :
                      /\ HasKey(val_map, v)
                      /\ \E i \in 3..Len(unpacked) :
                             /\ val_map[v] = unpacked[i]
                             /\ env_gen[cont[1]].captures_num # None
                             /\ i <= env_gen[cont[1]].captures_num[1]

\* the ops control goes to from op inside a chunk: none from a call site or a
\* return, else the next op and then the first op of each branch target
FlowSuccessors(sf, op) ==
    IF sf.ops[op].kind \in {"Call", "Apply", "ReturnOk", "ReturnThrow"} THEN <<>>
    ELSE (IF op < Len(sf.ops) /\ \E e \in DOMAIN sf.ebbs :
                 \E i \in 1..(Len(sf.ebbs[e].ops) - 1) : sf.ebbs[e].ops[i] = op
          THEN <<CHOOSE n \in DOMAIN sf.ops :
                    \E e \in DOMAIN sf.ebbs : \E i \in 1..(Len(sf.ebbs[e].ops) - 1) :
                        sf.ebbs[e].ops[i] = op /\ sf.ebbs[e].ops[i + 1] = n>>
          ELSE <<>>)
         \o [i \in DOMAIN sf.ops[op].branches |->
                sf.ebbs[sf.ebb_calls[sf.ops[op].branches[i]].target].ops[1]]
\* the ops of a chunk in breadth-first order from the ops of queue
RECURSIVE BreadthFirst(_, _, _)
BreadthFirst(sf, queue, seen) ==
    IF queue = <<>> THEN <<>>
    ELSE CHOOSE r \in {
           IF o \in seen THEN BreadthFirst(sf, rest, seen)
           ELSE <<o>> \o BreadthFirst(sf, rest \o FlowSuccessors(sf, o), seen \cup {o}) :
           o \in {Head(queue)}, rest \in {Tail(queue)}} : TRUE
\* the ops of a chunk in depth-first order: from each op the next op and what
\* follows it, then each branch target and what follows it
RECURSIVE DepthFirst(_, _, _)
DepthFirst(sf, todo, seen) ==
    IF todo = <<>> THEN <<>>
    ELSE CHOOSE r \in {
           IF o \in seen THEN DepthFirst(sf, rest, seen)
           ELSE <<o>> \o DepthFirst(sf, FlowSuccessors(sf, o) \o rest, seen \cup {o}) :
           o \in {Head(todo)}, rest \in {Tail(todo)}} : TRUE
IsCallSite(op) == src_fun.ops[op].kind \in {"Call", "Apply"}
BreadthFirstSites == SelectSeq(BreadthFirst(src_fun, <<site_first_op(src_fun, site)>>, {}), IsCallSite)
DepthFirstSites == SelectSeq(DepthFirst(src_fun, <<site_first_op(src_fun, site)>>, {}), IsCallSite)
\* the work loop handles the continuation sites of the chunk in the order sites
SitesInOrder(sites) ==
    ContSiteStep =>
        LET k == Cardinality(handled_ops \cap cont_sites)
        IN  k + 1 <= Len(sites) /\ src_op = sites[k + 1]
\* a continuation site that is new gets the next env index, the ok
\* continuation before the err continuation
NextEnvIndices ==
    ContSiteStep =>
        /\ Len(needed') >= Len(needed)
        /\ Len(env_gen') = Len(env_gen) + (Len(needed') - Len(needed))
        /\ \A i \in (Len(needed) + 1)..Len(needed') :
               /\ needed'[i][2] = Len(env_gen) + (i - Len(needed))
               /\ needed_map'[needed'[i][1]] = needed'[i][2]
        /\ Len(needed') = Len(needed) + 2 => IsSiteOp(needed'[Len(needed) + 1][1])
\* the function transformed next has the least ident of those not yet transformed
SortedIdentOrder ==
    (pc = "module" /\ fun_idents # <<>>) =>
        /\ src_fun'.ident = Head(fun_idents)
        /\ \A f \in module.functions :
               IdentLess(FunIdent(f), src_fun'.ident) => HasKey(funs, FunIdent(f))

(***************************************************************************)
(* C18 as stated: the functions are transformed in sorted-ident order and  *)
(* in each chunk the continuation sites get their env indices in the order *)
(* of a depth-first traversal of the chunk body.                           *)
(***************************************************************************)
C18_AsStated ==
    [][SortedIdentOrder /\ SitesInOrder(DepthFirstSites) /\ NextEnvIndices]_vars

(***************************************************************************)
(* C18: the functions are transformed in sorted-ident order and in each    *)
(* chunk the continuation sites get their env indices in the order in      *)
(* which a breadth-first traversal of the chunk body reaches them (a       *)
(* first-in first-out work list seeded with the chunk's first op; after an *)
(* op its next op is queued, then its branch targets): each new site takes *)
(* the next index of the module's env table, ok continuation first.        *)
(***************************************************************************)
C18_EnvOrder ==
    [][SortedIdentOrder /\ SitesInOrder(BreadthFirstSites) /\ NextEnvIndices]_vars
\* the entry chunk of the function with three call sites behind two forks
\* has handled all three
C18_Witness ==
    /\ pc = "chunk"
    /\ cont = None
    /\ src_fun.ident = Ident(1, 1, None)
    /\ Len(src_fun.ops) = 9
    /\ Cardinality(handled_ops \cap cont_sites) = 3
    /\ Len(env_gen) = 6
    /\ BreadthFirstSites # DepthFirstSites

\* the transform has not returned and has not panicked: exactly the states in
\* which NextCPS is enabled
Running == pc \notin {"done", "panic"}
\* transform_module is a sequential program that runs to its end: every round
\* of its loops is taken.  This is weak fairness of NextCPS, WF_vars(NextCPS),
\* written out with Running for ENABLED <<NextCPS>>_vars.
SpecCPSFair == SpecCPS /\ ([]<>(~Running) \/ []<><<NextCPS>>_vars)

\* a round of the work loop handles an op that was not handled before in the
\* chunk, and marks it; a round on a handled op emits nothing
ProcessedOnce ==
    InChunk =>
        /\ handled_ops' # handled_ops =>
               src_op \notin handled_ops /\ handled_ops' = handled_ops \cup {src_op}
        /\ src_op \in handled_ops => b' = b /\ needed' = needed
\* a continuation site is put on the needed list once
ScheduledOnce ==
    pc = "chunk" =>
        /\ Len(needed') >= Len(needed)
        /\ \A i \in (Len(needed) + 1)..Len(needed') :
               /\ ~HasKey(needed_map, needed'[i][1])
               /\ \A j \in 1..(i - 1) : needed'[j][1] # needed'[i][1]
\* a chunk is generated for a site that has no chunk yet
GeneratedOnce ==
    /\ (pc = "function" /\ pc' = "chunk") =>
           /\ IF IsSiteOp(site') THEN site'[2] \notin generated2
              ELSE <<site'[2], site'[3]>> \notin generated
           /\ ~HasKey(funs, chunk_ident(src_fun, cont'))
    /\ (pc = "chunk" /\ pc' = "function") => ~HasKey(funs, b.fun.ident)

(***************************************************************************)
(* C20: transform_function comes to an end (it returns, or the transform   *)
(* aborts) on every source function, loops with call sites included: in a *)
(* chunk each source op is processed at most once, each continuation site  *)
(* is scheduled once and generated once, and the work lists empty.         *)
(***************************************************************************)
C20_Terminates ==
    /\ [][ProcessedOnce /\ ScheduledOnce /\ GeneratedOnce]_vars
    /\ (pc \in {"chunk", "function"}) ~> (pc \in {"module", "panic"})
    /\ <>(pc \in {"done", "panic"})
\* the function with a call site in a loop is transformed: its entry chunk
\* and the chunks of the continuations in the loop
C20_Witness ==
    /\ pc = "done"
    /\ src_fun = LoopFun(1)
    /\ Cardinality(DOMAIN funs) >= 3
    /\ \E f \in OutFuns : IsContinuation(f) /\ \E p \in OpsOf(f) : IsCallOp(OpAt(f, p))

(***************************************************************************)
(* C21: every EBB-call that copy_op emits into a chunk passes as many      *)
(* arguments as its destination EBB has parameters, the chunk's entry EBB  *)
(* included.                                                               *)
(***************************************************************************)
\* the EBB-calls of the copied ops of chunk f
EbbCallsOf(f) == UNION {Range(OpAt(f, p).branches) : p \in OpsOf(f)}
ArityMatches(f, call) == Len(call.args) = Len(f.ebbs[call.target].args)
C21_EbbCallArity == \A f \in Chunks : \A call \in EbbCallsOf(f) : ArityMatches(f, call)

(***************************************************************************)
(* C22: the SSA pass keeps the scope tracker balanced.  A call of          *)
(* assign_ssa_single_expression that is in progress holds at most one      *)
(* scope and at most one tracking frame of its own, depending only on its  *)
(* node and on how far it has come; the scope stack and the tracking stack *)
(* are exactly what the calls in progress hold, so a call that returns     *)
(* leaves both depths as they were when it was made (both are 0 when the   *)
(* pass is done).  A call that is about to pop finds on top the scope, or  *)
(* the tracking frame, that it pushed itself: no pop meets an empty stack. *)
(***************************************************************************)
\* the call f = (node, idx) has pushed a scope that it has not popped yet
HoldsScope(f) ==
    LET e == hir[f.node]
    IN  CASE e.kind = "Let" -> f.idx = Len(e.val) + 1
          [] e.kind = "Try" -> f.idx \in {Len(e.val) + 1, Len(e.val) + 2}
          [] e.kind = "Clause" -> f.idx \in {1, 2}
          [] e.kind = "Closure" -> f.idx = 1
          [] e.kind = "BindClosure" -> f.idx = 1
          [] e.kind = "BindClosures" -> f.idx >= 1
          [] OTHER -> FALSE
\* the call f has pushed a tracking frame that it has not popped yet
HoldsTracking(f) ==
    LET e == hir[f.node]
    IN  CASE e.kind = "BindClosure" -> f.idx = 1
          [] e.kind = "BindClosures" -> f.idx >= 1 /\ f.idx <= Len(e.closures) + 1
          [] OTHER -> FALSE
\* the scopes, and the tracking frames, held by the first k calls in progress
ScopesHeld(k) == Cardinality({i \in 1..k : HoldsScope(stack[i])})
TrackingHeld(k) == Cardinality({i \in 1..k : HoldsTracking(stack[i])})
\* the scope the call f pushed
OwnScope(f) ==
    LET e == hir[f.node]
        names == var_ssa[f.node]
    IN  CASE e.kind = "Try" /\ f.idx = Len(e.val) + 2 ->
                 scope_of(e.catch_vars,
                          SubSeq(names, Len(e.vars) + 1, Len(e.vars) + Len(e.catch_vars)))
          [] e.kind = "Clause" -> scope_of(binds_of(e.patterns), names)
          [] e.kind = "BindClosures" ->
                 alias_scope([i \in DOMAIN e.closures |-> hir[e.closures[i]].var], names)
          [] OTHER -> scope_of(e.vars, names)
\* the top call is where it pops its scope, or its tracking frame, next: no
\* call of its own is in progress any more
PopsScopeNext ==
    /\ InSSA
    /\ CASE expr.kind = "Try" -> frame.idx \in {Len(expr.val) + 1, Len(expr.val) + 2}
         [] expr.kind = "Clause" -> frame.idx = 2
         [] expr.kind = "BindClosures" -> frame.idx = Len(expr.closures) + 2
         [] OTHER -> HoldsScope(frame)
PopsTrackingNext ==
    /\ InSSA
    /\ CASE expr.kind = "BindClosures" -> frame.idx = Len(expr.closures) + 1
         [] OTHER -> HoldsTracking(frame)
C22_Balanced ==
    /\ Len(scopes) = ScopesHeld(Len(stack))
    /\ Len(tracking) = TrackingHeld(Len(stack))
    /\ PopsScopeNext => scopes # <<>> /\ Last(scopes) = OwnScope(frame)
    /\ PopsTrackingNext =>
           /\ tracking # <<>>
           /\ Last(tracking).start =
                  ScopesHeld(Len(stack)) - (IF expr.kind = "BindClosure" THEN 1 ELSE 0)
\* the pass has returned from a tree with a Let and two closures
C22_Witness ==
    /\ ssa_pc = "done"
    /\ Len(lambda_envs) >= 2
    /\ \E n \in DOMAIN hir : hir[n].kind = "Let"
=============================================================================
